---------------------------- MODULE Spec2Model ----------------------------
(***************************************************************************)
(* A model of voynich's secure-session subsystem: the record codec         *)
(* (src/src/crypto.rs), the X25519 key agreement, the identity handshake   *)
(* and the per-connection actor (src/src/connection.rs).                   *)
(*                                                                         *)
(* Cryptography is modelled as perfect: hashes, signatures, the DH         *)
(* function and the key derivation are injective functions on small        *)
(* integer codes, and an AEAD frame opens only under the key and nonce it  *)
(* was sealed with and only when no bit of it was flipped.  Byte strings   *)
(* are sequences of integers 0..255, and bodies are serialized to CBOR the *)
(* way serde_cbor lays the three body types out.                           *)
(***************************************************************************)
EXTENDS Integers, Sequences, FiniteSets, TLC

(***************************************************************************)
(* Bounds of the model.                                                    *)
(***************************************************************************)
\* the longest raw serialized body the codec specification draws
MaxSerLen == 129
\* chat texts are drawn with lengths MinMsgLen .. MinMsgLen + MsgLenSpan
MsgLenSpan == 3
\* the number of times the adversary may intervene on the stream
MaxAdv == 3
\* the number of chat messages the two upper layers may hand to their
\* engines in a run on an honest stream
MaxChat == 2
\* the number of times an upper layer may ask to disconnect its peer in a
\* run on an honest stream
MaxDisconnect == 2
\* the number of times an actor is followed polling an inbox without senders
MaxPoll == 1
\* the number of connections the engine of src/src/engine.rs is followed
\* through
MaxStream == 2
\* the capacity of that engine's event channel
MaxRx == 2
\* the number of ConnectionAuthorized events an upper layer may have its
\* engine send the inbox of an incoming connection (one fewer for an
\* outgoing one)
MaxAuthorize == 2
\* the number of entries the chat list of an app is followed to
MaxList == 3

(***************************************************************************)
(* Program constants of src/src/crypto.rs.                                 *)
(***************************************************************************)
BLOCKSIZE == 64
HEADER_SIZE == 1
NONCE_SIZE == 12
PROTOCOL_VERSION == 1
ALGORITHM_CHACHA20POLY1305 == 0
KEY_LEN == 32

\* the width of PaddingLength (u8): the cast `as PaddingLength` keeps 8 bits
PaddingLengthMod == 256

\* the length of a textual onion-service identity
IdTextLen == 56

(***************************************************************************)
(* Identities.  "A" and "B" are honest; the signing key of "C" is the      *)
(* adversary's.  An identity's text is 56 characters that encode its       *)
(* verifying key.                                                          *)
(***************************************************************************)
Ids == {"A", "B", "C"}

IdIdx(id) == CASE id = "A" -> 1 [] id = "B" -> 2 [] id = "C" -> 3 [] OTHER -> 0

\* TorServiceId::to_string, as bytes
to_string(id) == [i \in 1..IdTextLen |-> 96 + IdIdx(id)]

\* TorServiceId::from_str: the identity a text denotes, "invalid" when none
from_str(text) ==
    IF \E id \in Ids : text = to_string(id)
    THEN CHOOSE id \in Ids : text = to_string(id)
    ELSE "invalid"

\* TorServiceId::verifying_key: the Ed25519 public key the identity encodes
verifying_key(id) == IdIdx(id)

\* the engine's private signing key for an identity
signing_key(id) == IdIdx(id)

\* Ed25519 signing: an injective code of (data, key)
Sign(sk, data) == data * 4 + sk

\* a verification that accepts every signature
VerifyAny(vk, data, sig) == TRUE

\* Ed25519 verification: the signature is the one the matching private key
\* makes over exactly this data
Verify(vk, data, sig) == sig = data * 4 + vk

(***************************************************************************)
(* X25519 and the key derivation.                                          *)
(***************************************************************************)
\* PublicKey::from(&secret)
PublicKey_from(secret) == secret

\* generate_shared_secret: DH is symmetric in the two secrets
\* a Diffie-Hellman that is not symmetric in the two key pairs
SharedSecretOneSided(secret_key, public_key) == secret_key * 4 + public_key

generate_shared_secret(secret_key, public_key) ==
    IF secret_key <= public_key
    THEN secret_key * 4 + public_key
    ELSE public_key * 4 + secret_key

\* generate_symmetric_key: HKDF-SHA256 of the shared secret
generate_symmetric_key(shared) == 2 * shared + 1

\* generate_session_hash: SHA-256 over client id, server id, both verifying
\* keys and the shared secret, in that order
\* a session hash that leaves the shared secret out
SessionHashNoSecret(client_id, server_id, shared_secret) ==
    (((IdIdx(client_id) * 4 + IdIdx(server_id)) * 4
      + verifying_key(client_id)) * 4 + verifying_key(server_id)) * 16

generate_session_hash(client_id, server_id, shared_secret) ==
    (((IdIdx(client_id) * 4 + IdIdx(server_id)) * 4
        + verifying_key(client_id)) * 4 + verifying_key(server_id)) * 16
    + shared_secret

\* generate_auth_data: session hash || identity text
generate_auth_data(id, session_hash) == session_hash * 4 + IdIdx(id)

(***************************************************************************)
(* CBOR, as serde_cbor writes the three body types.                        *)
(***************************************************************************)
\* the head of a CBOR item: major type and argument, shortest form
CborHead(major, n) ==
    IF n < 24 THEN <<major * 32 + n>>
    ELSE IF n < 256 THEN <<major * 32 + 24, n>>
    ELSE IF n < 65536 THEN <<major * 32 + 25, n \div 256, n % 256>>
    ELSE <<major * 32 + 26, (n \div 16777216) % 256, (n \div 65536) % 256,
           (n \div 256) % 256, n % 256>>

CborText(chars) == CborHead(3, Len(chars)) \o chars

\* the field names of the body structs, as ASCII
KeyDate == <<100, 97, 116, 101>>
KeySender == <<115, 101, 110, 100, 101, 114>>
KeyRecipient == <<114, 101, 99, 105, 112, 105, 101, 110, 116>>
KeyMessage == <<109, 101, 115, 115, 97, 103, 101>>
KeyServiceId == <<115, 101, 114, 118, 105, 99, 101, 95, 105, 100>>
KeySignature == <<115, 105, 103, 110, 97, 116, 117, 114, 101>>

\* Signature::to_bytes: 64 bytes, serialized as one byte string
SignatureBytes(sig) ==
    [i \in 1..64 |-> IF i = 1 THEN sig % 256
                     ELSE IF i = 2 THEN (sig \div 256) % 256
                     ELSE IF i = 3 THEN (sig \div 65536) % 256
                     ELSE 0]

\* the three body types
ChatMessage(date, sender, recipient, message) ==
    [type |-> "ChatMessage", date |-> date, sender |-> sender,
     recipient |-> recipient, message |-> message]

AuthMessage(service_id, signature) ==
    [type |-> "AuthMessage", service_id |-> service_id, signature |-> signature]

ConnectionAuthorizedMessage == [type |-> "ConnectionAuthorizedMessage"]

\* serde_cbor::to_vec
Serialize(body) ==
    CASE body.type = "ChatMessage" ->
            CborHead(5, 4)
            \o CborText(KeyDate) \o CborHead(0, body.date)
            \o CborText(KeySender) \o CborText(to_string(body.sender))
            \o CborText(KeyRecipient) \o CborText(to_string(body.recipient))
            \o CborText(KeyMessage) \o CborText(body.message)
      [] body.type = "AuthMessage" ->
            CborHead(5, 2)
            \o CborText(KeyServiceId) \o CborText(body.service_id)
            \o CborText(KeySignature)
            \o CborHead(2, 64) \o SignatureBytes(body.signature)
      [] OTHER -> <<246>>

\* reading: every reader returns [ok, val, next]
Fail == [ok |-> FALSE, val |-> 0, next |-> 0]

\* the head at position p: val is <<major, argument>>
ReadHead(b, p) ==
    IF p < 1 \/ p > Len(b) THEN Fail
    ELSE LET major == b[p] \div 32
             info == b[p] % 32
         IN  IF info < 24 THEN [ok |-> TRUE, val |-> <<major, info>>, next |-> p + 1]
             ELSE IF info = 24 /\ p + 1 <= Len(b)
                  THEN [ok |-> TRUE, val |-> <<major, b[p + 1]>>, next |-> p + 2]
             ELSE IF info = 25 /\ p + 2 <= Len(b)
                  THEN [ok |-> TRUE, val |-> <<major, b[p + 1] * 256 + b[p + 2]>>,
                        next |-> p + 3]
             ELSE IF info = 26 /\ p + 4 <= Len(b)
                  THEN [ok |-> TRUE,
                        val |-> <<major, b[p + 1] * 16777216 + b[p + 2] * 65536
                                         + b[p + 3] * 256 + b[p + 4]>>,
                        next |-> p + 5]
             ELSE Fail

\* an item of the given major type at p: val is its argument
ReadMajor(b, p, major) ==
    LET Typed(h) == IF h.ok /\ h.val[1] = major
                    THEN [ok |-> TRUE, val |-> h.val[2], next |-> h.next]
                    ELSE Fail
    IN  Typed(ReadHead(b, p))

\* the h.val bytes after a string head h
ReadBody(b, h) ==
    IF h.ok /\ h.next + h.val - 1 <= Len(b)
    THEN [ok |-> TRUE, val |-> SubSeq(b, h.next, h.next + h.val - 1),
          next |-> h.next + h.val]
    ELSE Fail

\* a text string at p: val is its characters
ReadText(b, p) == ReadBody(b, ReadMajor(b, p, 3))

\* a byte string at p: val is its bytes
ReadBytes(b, p) == ReadBody(b, ReadMajor(b, p, 2))

\* the field name `key` at p
ReadKey(b, p, key) ==
    LET Named(t) == IF t.ok /\ t.val = key THEN t ELSE Fail
    IN  Named(ReadText(b, p))

\* a TorServiceId at p, deserialized from its text
ReadId(b, p) ==
    LET Parsed(t) == IF t.ok /\ from_str(t.val) # "invalid"
                     THEN [ok |-> TRUE, val |-> from_str(t.val), next |-> t.next]
                     ELSE Fail
    IN  Parsed(ReadText(b, p))

\* the field `key` at p: its name, then its value of the given kind
ReadField(b, p, key, kind) ==
    LET Value(k) ==
            IF ~k.ok THEN Fail
            ELSE CASE kind = "uint" -> ReadMajor(b, k.next, 0)
                   [] kind = "id" -> ReadId(b, k.next)
                   [] kind = "bytes" -> ReadBytes(b, k.next)
                   [] OTHER -> ReadText(b, k.next)
    IN  Value(ReadKey(b, p, key))

\* Signature::from_bytes
SignatureFromBytes(bytes) == bytes[1] + bytes[2] * 256 + bytes[3] * 65536

\* serde_cbor::from_slice::<ChatMessage>
DeserializeChatMessage(b) ==
    LET Built(m, date, sender, recipient, message) ==
            IF m.ok /\ m.val = 4 /\ date.ok /\ sender.ok /\ recipient.ok
               /\ message.ok /\ message.next = Len(b) + 1
            THEN [ok |-> TRUE,
                  val |-> ChatMessage(date.val, sender.val, recipient.val,
                                      message.val),
                  next |-> message.next]
            ELSE Fail
        Field4(m, date, sender, recipient) ==
            Built(m, date, sender, recipient,
                  ReadField(b, recipient.next, KeyMessage, "text"))
        Field3(m, date, sender) ==
            Field4(m, date, sender, ReadField(b, sender.next, KeyRecipient, "id"))
        Field2(m, date) ==
            Field3(m, date, ReadField(b, date.next, KeySender, "id"))
        Field1(m) ==
            Field2(m, ReadField(b, m.next, KeyDate, "uint"))
    IN  Field1(ReadMajor(b, 1, 5))

\* serde_cbor::from_slice::<AuthMessage>
DeserializeAuthMessage(b) ==
    LET Built(m, service_id, signature) ==
            IF m.ok /\ m.val = 2 /\ service_id.ok /\ signature.ok
               /\ Len(signature.val) = 64 /\ signature.next = Len(b) + 1
            THEN [ok |-> TRUE,
                  val |-> AuthMessage(service_id.val,
                                      SignatureFromBytes(signature.val)),
                  next |-> signature.next]
            ELSE Fail
        Field2(m, service_id) ==
            Built(m, service_id,
                  ReadField(b, service_id.next, KeySignature, "bytes"))
        Field1(m) ==
            Field2(m, ReadField(b, m.next, KeyServiceId, "text"))
    IN  Field1(ReadMajor(b, 1, 5))

\* serde_cbor::from_slice::<D> for the body type D the caller asks for
Deserialize(type, b) ==
    CASE type = "ChatMessage" -> DeserializeChatMessage(b)
      [] type = "AuthMessage" -> DeserializeAuthMessage(b)
      [] OTHER -> IF b = <<246>>
                  THEN [ok |-> TRUE, val |-> ConnectionAuthorizedMessage, next |-> 2]
                  ELSE Fail

(***************************************************************************)
(* The AEAD and the record codec.                                          *)
(*                                                                         *)
(* An item on the wire is either the raw opening packet of the key         *)
(* exchange or one length-delimited frame: nonce || ciphertext || tag.     *)
(* A frame records the key and nonce it was sealed under and which part of *)
(* it, if any, had a bit flipped in transit.                               *)
(***************************************************************************)
RawPacket(bytes) ==
    [kind |-> "raw", nonce |-> 0, key |-> 0, sealed_nonce |-> 0,
     flipped |-> "none", pt |-> bytes]

\* Cryptor::encrypt: nonce || ChaCha20-Poly1305(key, nonce, plaintext)
encrypt(key, nonce, plaintext) ==
    [kind |-> "frame", nonce |-> nonce, key |-> key, sealed_nonce |-> nonce,
     flipped |-> "none", pt |-> plaintext]

\* the results of decrypting and reading
Ok(v) == [res |-> "Ok", val |-> v]
Err == [res |-> "Err", val |-> <<>>]
Panic == [res |-> "Panic", val |-> <<>>]
OkNone == [res |-> "None", val |-> <<>>]

\* a decrypt that opens the ciphertext without checking the tag
DecryptNoTagCheck(key, frame) ==
    IF frame.kind = "frame" /\ frame.key = key THEN Ok(frame.pt) ELSE Err

\* Cryptor::decrypt: slices the nonce off (which panics on a frame shorter
\* than the nonce) and opens the rest; the tag check fails on any other
\* key or nonce and on any flipped bit
decrypt(key, frame) ==
    IF frame.kind = "short" THEN Panic
    ELSE IF frame.kind = "frame" /\ frame.key = key
            /\ frame.nonce = frame.sealed_nonce /\ frame.flipped = "none"
         THEN Ok(frame.pt)
         ELSE Err

\* a block count that adds a block instead of rounding up
CeilBlocksPlusOne(n) == (n + HEADER_SIZE) \div BLOCKSIZE + 1

\* the integer value of ((n + HEADER_SIZE) as f64 / BLOCKSIZE as f64).ceil()
CeilBlocks(n) == (n + HEADER_SIZE + BLOCKSIZE - 1) \div BLOCKSIZE

\* EncryptingWriter::send, the packet length
PacketLength(n) == CeilBlocks(n) * BLOCKSIZE

\* EncryptingWriter::send, the padding length, cast to PaddingLength
PaddingLength(n) == (PacketLength(n) - n - HEADER_SIZE) % PaddingLengthMod

\* EncryptingWriter::send, the packet: header, data, random padding
Packet(serialized, pad) ==
    <<PaddingLength(Len(serialized))>> \o serialized
    \o [i \in 1..PaddingLength(Len(serialized)) |-> pad]

\* EncryptingWriter::send, the frame written for a message
EncryptingWriter_send(key, nonce, pad, serialized) ==
    encrypt(key, nonce, Packet(serialized, pad))

\* a reader that takes everything after the header for the message
UnpadKeepsPadding(plaintext) ==
    IF Len(plaintext) < HEADER_SIZE THEN Panic
    ELSE Ok(SubSeq(plaintext, HEADER_SIZE + 1, Len(plaintext)))

\* DecryptingReader::read, from the decrypted plaintext to the body bytes:
\* an empty plaintext or a padding length beyond it panics on the slice
Unpad(plaintext) ==
    IF Len(plaintext) < HEADER_SIZE THEN Panic
    ELSE LET padding_length == plaintext[1]
             message_len == Len(plaintext) - HEADER_SIZE - padding_length
         IN  IF message_len < 0 THEN Panic
             ELSE Ok(SubSeq(plaintext, HEADER_SIZE + 1, message_len + HEADER_SIZE))

\* a reader that, asked for a ChatMessage, yields the body of a record
\* whatever its type
DecryptingReader_readAny(key, type, frame) ==
    LET Body(bytes) ==
            CASE Deserialize(type, bytes).ok -> Ok(Deserialize(type, bytes).val)
              [] type = "ChatMessage" /\ Deserialize("AuthMessage", bytes).ok ->
                   Ok(Deserialize("AuthMessage", bytes).val)
              [] type = "ChatMessage"
                 /\ Deserialize("ConnectionAuthorizedMessage", bytes).ok ->
                   Ok(ConnectionAuthorizedMessage)
              [] OTHER -> Err
        Unpadded(bytes) == IF bytes.res # "Ok" THEN bytes ELSE Body(bytes.val)
        Opened(plaintext) ==
            IF plaintext.res # "Ok" THEN plaintext
            ELSE Unpadded(Unpad(plaintext.val))
    IN  IF frame.kind = "raw" THEN Err ELSE Opened(decrypt(key, frame))

\* DecryptingReader::read::<D> on one frame of the stream
DecryptingReader_read(key, type, frame) ==
    LET Decoded(d) == IF d.ok THEN Ok(d.val) ELSE Err
        Unpadded(bytes) ==
            IF bytes.res # "Ok" THEN bytes
            ELSE Decoded(Deserialize(type, bytes.val))
        Opened(plaintext) ==
            IF plaintext.res # "Ok" THEN plaintext
            ELSE Unpadded(Unpad(plaintext.val))
    IN  IF frame.kind = "raw" THEN Err ELSE Opened(decrypt(key, frame))

\* the type of the body an item of the stream carries for the holder of
\* key: "short" when it is shorter than a nonce, "empty" when it opens to
\* an empty plaintext, "mispadded" when it opens to a plaintext whose
\* padding length does not fit, "none" when it does not open to a body of
\* one of the three types
BodyType(key, frame) ==
    LET Type(bytes) ==
            IF bytes.res = "Panic" THEN "mispadded"
            ELSE IF bytes.res # "Ok" THEN "none"
            ELSE CASE Deserialize("ChatMessage", bytes.val).ok -> "ChatMessage"
                   [] Deserialize("AuthMessage", bytes.val).ok -> "AuthMessage"
                   [] Deserialize("ConnectionAuthorizedMessage", bytes.val).ok ->
                        "ConnectionAuthorizedMessage"
                   [] OTHER -> "none"
        Opened(plaintext) ==
            IF plaintext.res = "Panic" THEN "short"
            ELSE IF plaintext.res # "Ok" THEN "none"
            ELSE IF plaintext.val = <<>> THEN "empty"
            ELSE Type(Unpad(plaintext.val))
    IN  IF frame.kind = "raw" THEN "none" ELSE Opened(decrypt(key, frame))

(***************************************************************************)
(* Key agreement and identity proof.                                       *)
(***************************************************************************)
\* send_ephemeral_public_key: version, algorithm, 32 bytes of public key
KeyPacket(version, algorithm, public_key) ==
    <<version, algorithm>> \o [i \in 1..KEY_LEN |-> IF i = 1 THEN public_key ELSE 0]

\* the bytes one read of the stream returns for an item
WireBytes(item) ==
    IF item.kind = "frame"
    THEN [i \in 1..(4 + NONCE_SIZE + Len(item.pt) + 16) |-> 0]
    ELSE item.pt

\* read_peer_public_key without the check of the version byte
ReadPeerKeyAnyVersion(buffer) ==
    IF Len(buffer) = KEY_LEN + 2 /\ buffer[2] = ALGORITHM_CHACHA20POLY1305
    THEN Ok(buffer[3])
    ELSE Err

\* read_peer_public_key on the bytes one read returned
read_peer_public_key(buffer) ==
    IF Len(buffer) > 0
    THEN IF Len(buffer) = KEY_LEN + 2
         THEN IF buffer[1] # PROTOCOL_VERSION THEN Err
              ELSE IF buffer[2] # ALGORITHM_CHACHA20POLY1305 THEN Err
              ELSE Ok(buffer[3])
         ELSE Err
    ELSE Err

\* verify_auth_message without the comparison of the identity texts
VerifyAuthNoIdCheck(auth_message, peer_id, session_hash) ==
    Verify(verifying_key(peer_id), generate_auth_data(peer_id, session_hash),
           auth_message.signature)

\* verify_auth_message: the embedded text is the expected peer's and the
\* signature verifies under its key over session hash || identity text
verify_auth_message(auth_message, peer_id, session_hash) ==
    IF to_string(peer_id) = auth_message.service_id
    THEN Verify(verifying_key(peer_id), generate_auth_data(peer_id, session_hash),
                auth_message.signature)
    ELSE FALSE

(***************************************************************************)
(* The state.                                                              *)
(*                                                                         *)
(* Two honest endpoints share one stream: "dial" runs connect() as         *)
(* identity "A", "acc" runs handle_incoming_connection() as identity "B".  *)
(* chan[s] holds what s wrote and its peer has not read yet; eof[s] says   *)
(* that s's writing end is closed.  When the network is hostile an         *)
(* adversary who owns identity "C" sits on the stream.                     *)
(***************************************************************************)
VARIABLES
    target,     \* the identity parsed from the dial address
    hostile,    \* whether an adversary controls the stream
    advLeft,    \* how many more times the adversary may act
    chan,       \* per writer: the items in flight
    eof,        \* per writer: its end of the stream is closed
    loc,        \* per endpoint: position and locals of its task
    engine_tx,  \* per endpoint: the EngineEvents sent to its engine
    sig_req,    \* per endpoint: the data its engine was asked to sign
    sig_reply,  \* per endpoint: the signature its engine replied with
    inbox,      \* per endpoint: the ConnectionEvents queued for its actor
    upper,      \* per endpoint: what its upper layer asked for, may still ask for
    wire,       \* per endpoint: the bodies it handed to its record writer
    eng,        \* the engine of src/src/engine.rs: its writers and its events
    cx          \* the codec specification's writer and reader

vars == <<target, hostile, advLeft, chan, eof, loc, engine_tx, sig_req,
          sig_reply, inbox, upper, wire, eng, cx>>

Sides == {"dial", "acc"}

Peer(s) == IF s = "dial" THEN "acc" ELSE "dial"

\* the local identity each engine was constructed with
LocalId(s) == IF s = "dial" THEN "A" ELSE "B"

\* generate_ephemeral_keypair: fresh secrets, one per party
EphemeralSecret(who) == CASE who = "dial" -> 1 [] who = "acc" -> 2 [] OTHER -> 3

NoSig == 0 - 1

NoAuth == [type |-> "none", service_id |-> <<>>, signature |-> 0]

\* the random nonce of a record: no step of the handshake or of the actor
\* reads it, so one value stands for it outside the codec specification
SessionNonces == {0}

\* the random padding byte, likewise
SessionPads == {0}

\* Utc::now(), rounded to the second
Now == 1700000000

\* the text the upper layer sends
ChatText == <<104, 105>>

\* the text of the n-th message an upper layer sends
UpperText(n) == <<104, 105, 48 + n>>

\* a body handed to writer.send, and whether the write succeeded
Sent(body, ok) == [body |-> body, ok |-> ok]

Terminated == {"closed", "done", "panicked"}

\* a ConnectionInfo that calls every connection Incoming
ConnectionInfoIncoming(s) == [id |-> loc[s].peer_id, direction |-> "Incoming"]

\* ConnectionInfo::new: the peer's identity and the direction
ConnectionInfo(s) ==
    [id |-> loc[s].peer_id,
     direction |-> IF s = "dial" THEN "Outgoing" ELSE "Incoming"]

\* EngineEvents
NewConnection(info) == [type |-> "NewConnection", info |-> info, body |-> NoAuth]
ConnectionClosed(info) == [type |-> "ConnectionClosed", info |-> info, body |-> NoAuth]
NoInfo == [id |-> "none", direction |-> "none"]
Message(chat_message) == [type |-> "Message", info |-> NoInfo, body |-> chat_message]
Error == [type |-> "Error", info |-> NoInfo, body |-> NoAuth]

\* what s can read next
Incoming(s) == chan[Peer(s)]
Ready(s) == Incoming(s) # <<>>
AtEof(s) == Incoming(s) = <<>> /\ eof[Peer(s)]

\* a write succeeds; once the peer has dropped the stream it may also fail
WriteResults(s) == IF loc[Peer(s)].pc \in Terminated THEN {TRUE, FALSE} ELSE {TRUE}

\* a stream that delivers what was written last first
WrittenFirst(s, item) ==
    IF loc[Peer(s)].pc \in Terminated THEN chan
    ELSE [chan EXCEPT ![s] = <<item>> \o @]

\* the stream after s wrote item (what is written to a dropped stream is lost)
Written(s, item) ==
    IF loc[Peer(s)].pc \in Terminated THEN chan
    ELSE [chan EXCEPT ![s] = Append(@, item)]

\* the stream after s read its next item
Consumed(s) == [chan EXCEPT ![Peer(s)] = Tail(@)]

\* an actor that ends and leaves its half of the stream open
StopKeepsStream(s, pc, err) ==
    /\ loc' = [loc EXCEPT ![s].pc = pc, ![s].err = err]
    /\ eof' = eof
    /\ chan' = [chan EXCEPT ![Peer(s)] = <<>>]

\* the task of s ends (an Err returned, the loop left, or a panic): its
\* halves of the stream are dropped
Stop(s, pc, err) ==
    /\ loc' = [loc EXCEPT ![s].pc = pc, ![s].err = err]
    /\ eof' = [eof EXCEPT ![s] = TRUE]
    /\ chan' = [chan EXCEPT ![Peer(s)] = <<>>]

\* the frame s writes for a body
Record(s, body) ==
    LET nonce == CHOOSE n \in SessionNonces : TRUE
        pad == CHOOSE b \in SessionPads : TRUE
    IN  EncryptingWriter_send(loc[s].encryption_key, nonce, pad, Serialize(body))

(***************************************************************************)
(* The adversary.  It owns identity "C", runs its own ephemeral key, sees  *)
(* every public key, and may at most MaxAdv times hand a reading endpoint  *)
(* an item of its own or its next frame with a bit flipped, take the next  *)
(* item away, or cut a direction of the stream.  It can sign anything as   *)
(* "C" and replay what an honest identity signed in another session.       *)
(***************************************************************************)
AdvSecretWith(r) ==
    generate_shared_secret(EphemeralSecret("adv"), PublicKey_from(EphemeralSecret(r)))

\* the secret of an earlier session between the two honest endpoints
PriorSecret ==
    generate_shared_secret(EphemeralSecret("dial"), PublicKey_from(EphemeralSecret("acc")))

AdvRaw ==
    {RawPacket(KeyPacket(va[1], va[2], PublicKey_from(EphemeralSecret("adv")))) :
        va \in {<<PROTOCOL_VERSION, ALGORITHM_CHACHA20POLY1305>>,
                <<PROTOCOL_VERSION + 1, ALGORITHM_CHACHA20POLY1305>>,
                <<PROTOCOL_VERSION, ALGORITHM_CHACHA20POLY1305 + 1>>}}
    \cup {RawPacket(<<PROTOCOL_VERSION>>)}

\* the (client, server) pairs a session of r can be about
AdvPairs(r) ==
    IF r = "dial" THEN {<<"A", target>>} ELSE {<<"A", "B">>, <<"C", "B">>}

\* signatures under the key of "C" over any auth data of these sessions
AdvOwnSignatures(r) ==
    {Sign(signing_key("C"),
          generate_auth_data(i, generate_session_hash(cs[1], cs[2], sec))) :
        i \in Ids, cs \in AdvPairs(r), sec \in {AdvSecretWith(r)}}

\* signatures the honest peer of r made in sessions with other secrets
AdvReplayedSignatures(r) ==
    {Sign(signing_key(LocalId(Peer(r))),
          generate_auth_data(LocalId(Peer(r)),
                             generate_session_hash(cs[1], cs[2], sec))) :
        cs \in AdvPairs(r), sec \in {AdvSecretWith(Peer(r)), PriorSecret}}

\* the bodies it sends r: while r waits for an AuthMessage, every pairing
\* of an identity text with such a signature; later, the bodies of the two
\* later phases, each of which is the wrong type in the other phase
AdvBodies(r) ==
    IF loc[r].pc = "auth_read"
    THEN {AuthMessage(to_string(i), sig) :
            i \in Ids, sig \in AdvOwnSignatures(r) \cup AdvReplayedSignatures(r)}
         \cup {ConnectionAuthorizedMessage}
    ELSE {ConnectionAuthorizedMessage}
         \cup {ChatMessage(Now, i, LocalId(r), ChatText) :
                  i \in {LocalId(Peer(r)), "C"}}

\* a plaintext whose header names more padding than the bytes that follow it
Mispadded == <<1>>

\* a frame of fewer bytes than a nonce
ShortFrame == [RawPacket(<<>>) EXCEPT !.kind = "short"]

\* the frames it sends r: the records of its bodies, a record whose padding
\* length does not fit its plaintext, a record of the empty plaintext, and
\* a frame too short to hold a nonce
AdvFrames(r) ==
    {encrypt(generate_symmetric_key(AdvSecretWith(r)), 0, Packet(Serialize(b), 0)) :
        b \in AdvBodies(r)}
    \cup {encrypt(generate_symmetric_key(AdvSecretWith(r)), 0, pt) : pt \in {Mispadded, <<>>}}
    \cup {ShortFrame}

\* what it sends r in the phase r is in: opening packets during the key
\* exchange, frames after it
AdvItems(r) ==
    IF loc[r].pc \in {"start", "kx_read"} THEN AdvRaw
    ELSE IF loc[r].pc \in {"auth_read", "wait_authz", "live"} THEN AdvFrames(r)
    ELSE {}

\* a bit of the nonce, of the ciphertext or of the tag is flipped
Flipped(frame, part) ==
    [frame EXCEPT !.flipped = part,
                  !.nonce = IF part = "nonce" THEN @ + 1 ELSE @]

\* what the next read of s is given: the item at the head of its stream,
\* the end of the stream, or, where the adversary spends an intervention,
\* an item of the adversary's or the frame at the head with a bit flipped
Reads(s) ==
    (IF Ready(s) THEN {[from |-> "stream", item |-> Head(Incoming(s))]} ELSE {})
    \cup (IF AtEof(s) THEN {[from |-> "eof", item |-> RawPacket(<<>>)]} ELSE {})
    \cup (IF hostile /\ advLeft > 0
          THEN {[from |-> "adv", item |-> i] : i \in AdvItems(s)}
               \cup (IF Ready(s) /\ Head(Incoming(s)).kind = "frame"
                     THEN {[from |-> "flip", item |-> Flipped(Head(Incoming(s)), part)] :
                             part \in {"nonce", "ciphertext", "tag"}}
                     ELSE {})
          ELSE {})

\* the stream after s read x
Taken(s, x) == IF x.from \in {"stream", "flip"} THEN Consumed(s) ELSE chan

\* the interventions left to the adversary after x was read
Spent(x) == IF x.from \in {"adv", "flip"} THEN advLeft - 1 ELSE advLeft

\* a reader that takes the end of the stream for an error
NextReadEofError(s, type, x) ==
    IF x.from = "eof" THEN Err
    ELSE DecryptingReader_read(loc[s].encryption_key, type, x.item)

\* what read::<type>() of s returns on x
NextRead(s, type, x) ==
    IF x.from = "eof" THEN OkNone
    ELSE DecryptingReader_read(loc[s].encryption_key, type, x.item)

(***************************************************************************)
(* key_exchange, on both sides.                                            *)
(***************************************************************************)
\* the locals of s once the peer's public key is in hand
KeysAgreed(s, peer_public_key, pc) ==
    LET shared == generate_shared_secret(EphemeralSecret(s), peer_public_key)
    IN  [loc[s] EXCEPT !.pc = pc, !.shared_secret = shared,
                       !.encryption_key = generate_symmetric_key(shared)]

\* the opening packet s sends
OwnKeyPacket(s) ==
    RawPacket(KeyPacket(PROTOCOL_VERSION, ALGORITHM_CHACHA20POLY1305,
                        PublicKey_from(EphemeralSecret(s))))

\* what read_peer_public_key returns to s: on the next chunk, or on the
\* 0 bytes a closed stream gives
PeerKeyRead(x) ==
    IF x.from = "eof" THEN read_peer_public_key(<<>>)
    ELSE read_peer_public_key(WireBytes(x.item))

\* the version and algorithm bytes of the opening packet in x
Hello(x) ==
    IF x.from = "eof" THEN <<>>
    ELSE SubSeq(WireBytes(x.item), 1, IF Len(WireBytes(x.item)) < 2
                                      THEN Len(WireBytes(x.item)) ELSE 2)

\* key_exchange of s returns the Err of read_peer_public_key on x
KeyExchangeFails(s, x) ==
    /\ loc' = [loc EXCEPT ![s].pc = "closed", ![s].err = "key_exchange",
                          ![s].hello = Hello(x)]
    /\ eof' = [eof EXCEPT ![s] = TRUE]
    /\ chan' = [chan EXCEPT ![Peer(s)] = <<>>]

\* a client that waits for the peer's key before it sends its own
Connect_ReadsFirst ==
    /\ loc["dial"].pc = "start"
    /\ loc' = [loc EXCEPT !["dial"].pc = "kx_read"]
    /\ UNCHANGED <<target, hostile, wire, eng, advLeft, chan, eof, engine_tx,
                   sig_req, sig_reply, inbox, upper, cx>>

\* connect, key_exchange as client: send_ephemeral_public_key
Connect_SendKey ==
    /\ loc["dial"].pc = "start"
    /\ \E ok \in WriteResults("dial") :
         IF ok
         THEN /\ chan' = Written("dial", OwnKeyPacket("dial"))
              /\ loc' = [loc EXCEPT !["dial"].pc = "kx_read"]
              /\ eof' = eof
         ELSE Stop("dial", "closed", "write")
    /\ UNCHANGED <<target, hostile, wire, eng,
                   advLeft, engine_tx, sig_req, sig_reply,
                   inbox, upper, cx>>

\* connect, key_exchange as client: read_peer_public_key, then the session
\* hash and the request to the engine to sign the auth data
Connect_ReadKey ==
    /\ loc["dial"].pc = "kx_read"
    /\ \E x \in Reads("dial") :
         /\ advLeft' = Spent(x)
         /\ LET Handle(r) ==
                  IF r.res = "Ok"
                  THEN LET l == KeysAgreed("dial", r.val, "sign_wait")
                           hash == generate_session_hash(LocalId("dial"), target,
                                                         l.shared_secret)
                       IN  /\ loc' = [loc EXCEPT !["dial"] =
                                        [l EXCEPT !.session_hash = hash,
                                                  !.peer_id = target,
                                                  !.hello = Hello(x)]]
                           /\ sig_req' = [sig_req EXCEPT !["dial"] =
                                            generate_auth_data(LocalId("dial"), hash)]
                           /\ chan' = Taken("dial", x)
                           /\ eof' = eof
                  ELSE /\ KeyExchangeFails("dial", x)
                       /\ sig_req' = sig_req
            IN  Handle(PeerKeyRead(x))
    /\ UNCHANGED <<target, hostile, wire, eng,
                   engine_tx, sig_reply, inbox, upper, cx>>

\* handle_incoming_connection, key_exchange as server: read, then send
Accept_KeyExchange ==
    /\ loc["acc"].pc = "start"
    /\ \E x \in Reads("acc") :
         /\ advLeft' = Spent(x)
         /\ LET Handle(r) ==
                  IF r.res = "Ok"
                  THEN \E ok \in WriteResults("acc") :
                         IF ok
                         THEN /\ loc' = [loc EXCEPT !["acc"] =
                                           [KeysAgreed("acc", r.val, "auth_read")
                                              EXCEPT !.hello = Hello(x)]]
                              /\ chan' = [Taken("acc", x) EXCEPT !["acc"] =
                                            Written("acc", OwnKeyPacket("acc"))["acc"]]
                              /\ eof' = eof
                         ELSE Stop("acc", "closed", "write")
                  ELSE KeyExchangeFails("acc", x)
            IN  Handle(PeerKeyRead(x))
    /\ UNCHANGED <<target, hostile, wire, eng,
                   engine_tx, sig_req, sig_reply, inbox,
                   upper, cx>>

\* read_peer_public_key: the 10 s timeout expires on a silent peer
KeyTimeout(s) ==
    /\ loc[s].pc = IF s = "dial" THEN "kx_read" ELSE "start"
    /\ Incoming(s) = <<>>
    /\ ~eof[Peer(s)]
    /\ Stop(s, "closed", "timeout")
    /\ UNCHANGED <<target, hostile, wire, eng,
                   advLeft, engine_tx, sig_req, sig_reply,
                   inbox, upper, cx>>

(***************************************************************************)
(* The signing oracle: the engine signs what a handshake asks it to sign   *)
(* with the identity key it holds and replies once.                        *)
(***************************************************************************)
\* an engine that leaves the request pending after it replied
Engine_sign_data_keeps(s) ==
    /\ sig_req[s] # NoSig
    /\ sig_reply[s] = NoSig
    /\ sig_reply' = [sig_reply EXCEPT ![s] =
                       Sign(signing_key(LocalId(s)), sig_req[s])]
    /\ sig_req' = sig_req
    /\ UNCHANGED <<target, hostile, wire, eng,
                   advLeft, chan, eof, loc, engine_tx, inbox,
                   upper, cx>>

Engine_sign_data(s) ==
    /\ sig_req[s] # NoSig
    /\ sig_reply' = [sig_reply EXCEPT ![s] =
                       Sign(signing_key(LocalId(s)), sig_req[s])]
    /\ sig_req' = [sig_req EXCEPT ![s] = NoSig]
    /\ UNCHANGED <<target, hostile, wire, eng,
                   advLeft, chan, eof, loc, engine_tx, inbox,
                   upper, cx>>

(***************************************************************************)
(* The AuthMessage exchange.                                               *)
(***************************************************************************)
\* the AuthMessage s sends once its engine has replied
OwnAuthMessage(s) == AuthMessage(to_string(LocalId(s)), sig_reply[s])

\* connect: the signature arrived; AuthMessage::new and writer.send
Connect_SendAuth ==
    /\ loc["dial"].pc = "sign_wait"
    /\ sig_reply["dial"] # NoSig
    /\ \E ok \in WriteResults("dial") :
         /\ wire' = [wire EXCEPT !["dial"] =
                       Append(@, Sent(OwnAuthMessage("dial"), ok))]
         /\ IF ok
            THEN /\ chan' = Written("dial", Record("dial", OwnAuthMessage("dial")))
                 /\ loc' = [loc EXCEPT !["dial"].pc = "auth_read"]
                 /\ eof' = eof
            ELSE Stop("dial", "closed", "write")
    /\ UNCHANGED <<target, hostile, eng, advLeft, engine_tx, sig_req,
                   sig_reply, inbox, upper, cx>>

\* connect: read the peer's AuthMessage and verify it against the identity
\* parsed from the dial address
Connect_ReadAuth ==
    /\ loc["dial"].pc = "auth_read"
    /\ \E x \in Reads("dial") :
         /\ advLeft' = Spent(x)
         /\ LET Handle(r) ==
                CASE r.res = "Ok" ->
                       IF verify_auth_message(r.val, loc["dial"].peer_id,
                                              loc["dial"].session_hash)
                       THEN /\ loc' = [loc EXCEPT !["dial"].pc = "wait_authz",
                                                  !["dial"].peer_auth = r.val]
                            /\ chan' = Taken("dial", x)
                            /\ eof' = eof
                       ELSE /\ loc' = [loc EXCEPT !["dial"].pc = "closed",
                                                  !["dial"].err = "verify",
                                                  !["dial"].peer_auth = r.val]
                            /\ eof' = [eof EXCEPT !["dial"] = TRUE]
                            /\ chan' = [chan EXCEPT !["acc"] = <<>>]
                  [] r.res = "None" -> Stop("dial", "closed", "eof")
                  [] r.res = "Err" -> Stop("dial", "closed", "read")
                  [] OTHER -> Stop("dial", "panicked", "panic")
            IN  Handle(NextRead("dial", "AuthMessage", x))
    /\ UNCHANGED <<target, hostile, wire, eng, engine_tx, sig_req, sig_reply,
                   inbox, upper, cx>>

\* the acceptor's session hash with client and server exchanged
AcceptorSessionHashSwapped(peer_id, id, shared_secret) ==
    generate_session_hash(id, peer_id, shared_secret)

\* handle_incoming_connection: the identity the acceptor derives the
\* session hash for is the one parsed from the AuthMessage
AcceptorSessionHash(peer_id, id, shared_secret) ==
    generate_session_hash(peer_id, id, shared_secret)

\* handle_incoming_connection: read the peer's AuthMessage, parse the
\* identity it names, verify it, ask the engine to sign the auth data
Accept_ReadAuth ==
    /\ loc["acc"].pc = "auth_read"
    /\ \E x \in Reads("acc") :
         /\ advLeft' = Spent(x)
         /\ LET Handle(r) ==
                  LET peer_id == from_str(r.val.service_id)
                      hash == AcceptorSessionHash(peer_id, LocalId("acc"),
                                                  loc["acc"].shared_secret)
                  IN  CASE r.res = "Ok" /\ peer_id = "invalid" ->
                             /\ Stop("acc", "closed", "service_id")
                             /\ sig_req' = sig_req
                        [] r.res = "Ok" /\ peer_id # "invalid" ->
                             IF verify_auth_message(r.val, peer_id, hash)
                             THEN /\ loc' = [loc EXCEPT !["acc"].pc = "sign_wait",
                                                        !["acc"].peer_auth = r.val,
                                                        !["acc"].peer_id = peer_id,
                                                        !["acc"].session_hash = hash]
                                  /\ sig_req' = [sig_req EXCEPT !["acc"] =
                                                   generate_auth_data(LocalId("acc"), hash)]
                                  /\ chan' = Taken("acc", x)
                                  /\ eof' = eof
                             ELSE /\ loc' = [loc EXCEPT !["acc"].pc = "closed",
                                                        !["acc"].err = "verify",
                                                        !["acc"].peer_auth = r.val,
                                                        !["acc"].peer_id = peer_id,
                                                        !["acc"].session_hash = hash]
                                  /\ eof' = [eof EXCEPT !["acc"] = TRUE]
                                  /\ chan' = [chan EXCEPT !["dial"] = <<>>]
                                  /\ sig_req' = sig_req
                        [] r.res = "None" -> Stop("acc", "closed", "eof") /\ sig_req' = sig_req
                        [] r.res = "Err" -> Stop("acc", "closed", "read") /\ sig_req' = sig_req
                        [] OTHER -> Stop("acc", "panicked", "panic") /\ sig_req' = sig_req
            IN  Handle(NextRead("acc", "AuthMessage", x))
    /\ UNCHANGED <<target, hostile, wire, eng, engine_tx, sig_reply, inbox,
                   upper, cx>>

\* the acceptor going live without publishing NewConnection
Accept_SendAuthSilent ==
    /\ loc["acc"].pc = "sign_wait"
    /\ sig_reply["acc"] # NoSig
    /\ \E ok \in WriteResults("acc") :
         /\ wire' = [wire EXCEPT !["acc"] =
                       Append(@, Sent(OwnAuthMessage("acc"), ok))]
         /\ IF ok
            THEN /\ chan' = Written("acc", Record("acc", OwnAuthMessage("acc")))
                 /\ loc' = [loc EXCEPT !["acc"].pc = "live"]
                 /\ eof' = eof
            ELSE Stop("acc", "closed", "write")
    /\ UNCHANGED <<target, hostile, eng, advLeft, engine_tx, sig_req,
                   sig_reply, inbox, upper, cx>>

\* handle_incoming_connection: the signature arrived; send the AuthMessage,
\* create the ConnectionInfo and publish NewConnection
Accept_SendAuth ==
    /\ loc["acc"].pc = "sign_wait"
    /\ sig_reply["acc"] # NoSig
    /\ \E ok \in WriteResults("acc") :
         /\ wire' = [wire EXCEPT !["acc"] =
                       Append(@, Sent(OwnAuthMessage("acc"), ok))]
         /\ IF ok
            THEN /\ chan' = Written("acc", Record("acc", OwnAuthMessage("acc")))
                 /\ loc' = [loc EXCEPT !["acc"].pc = "live"]
                 /\ eof' = eof
                 /\ engine_tx' = [engine_tx EXCEPT !["acc"] =
                                    Append(@, NewConnection(ConnectionInfo("acc")))]
            ELSE /\ Stop("acc", "closed", "write")
                 /\ engine_tx' = engine_tx
    /\ UNCHANGED <<target, hostile, eng, advLeft, sig_req, sig_reply, inbox,
                   upper, cx>>

\* connect: wait for the ConnectionAuthorizedMessage record; `?` passes
\* every Ok on, then the ConnectionInfo is created and NewConnection sent
Connect_ReadAuthorized ==
    /\ loc["dial"].pc = "wait_authz"
    /\ \E x \in Reads("dial") :
         /\ advLeft' = Spent(x)
         /\ LET Handle(r) ==
                CASE r.res \in {"Ok", "None"} ->
                       /\ loc' = [loc EXCEPT !["dial"].pc = "live",
                                             !["dial"].authorized_read = r.res]
                       /\ chan' = Taken("dial", x)
                       /\ eof' = eof
                       /\ engine_tx' = [engine_tx EXCEPT !["dial"] =
                                          Append(@, NewConnection(ConnectionInfo("dial")))]
                  [] r.res = "Err" ->
                       /\ Stop("dial", "closed", "read")
                       /\ engine_tx' = engine_tx
                  [] OTHER ->
                       /\ Stop("dial", "panicked", "panic")
                       /\ engine_tx' = engine_tx
            IN  Handle(NextRead("dial", "ConnectionAuthorizedMessage", x))
    /\ UNCHANGED <<target, hostile, wire, eng,
                   sig_req, sig_reply, inbox, upper, cx>>

(***************************************************************************)
(* Connection::handle_connection, the live loop.  select! takes whichever  *)
(* of the two branches is ready.                                           *)
(***************************************************************************)
\* the reader branch: one record, end of stream, or an error
Actor_read(s) ==
    /\ loc[s].pc = "live"
    /\ \E x \in Reads(s) :
         /\ advLeft' = Spent(x)
         /\ LET Handle(r) ==
                CASE r.res = "Ok" ->
                       /\ engine_tx' = [engine_tx EXCEPT ![s] = Append(@, Message(r.val))]
                       /\ chan' = Taken(s, x)
                       /\ loc' = [loc EXCEPT
                                    ![s].flipped = x.item.flipped,
                                    ![s].body = BodyType(loc[s].encryption_key, x.item)]
                       /\ eof' = eof
                  [] r.res = "None" ->
                       /\ engine_tx' = [engine_tx EXCEPT ![s] =
                                          Append(@, ConnectionClosed(ConnectionInfo(s)))]
                       /\ Stop(s, "done", "none")
                  [] r.res = "Err" ->
                       /\ engine_tx' = [engine_tx EXCEPT ![s] =
                                          @ \o <<Error, ConnectionClosed(ConnectionInfo(s))>>]
                       /\ loc' = [loc EXCEPT
                                    ![s].pc = "done", ![s].err = "read",
                                    ![s].flipped = x.item.flipped,
                                    ![s].body = BodyType(loc[s].encryption_key, x.item)]
                       /\ eof' = [eof EXCEPT ![s] = TRUE]
                       /\ chan' = [chan EXCEPT ![Peer(s)] = <<>>]
                  [] OTHER ->
                       /\ engine_tx' = engine_tx
                       /\ loc' = [loc EXCEPT
                                    ![s].pc = "panicked", ![s].err = "panic",
                                    ![s].body = BodyType(loc[s].encryption_key, x.item)]
                       /\ eof' = [eof EXCEPT ![s] = TRUE]
                       /\ chan' = [chan EXCEPT ![Peer(s)] = <<>>]
            IN  Handle(NextRead(s, "ChatMessage", x))
    /\ UNCHANGED <<target, hostile, wire, eng,
                   sig_req, sig_reply, inbox, upper, cx>>

\* the inbox branch: write a record for Message and ConnectionAuthorized
\* (a failed write is logged), leave the loop on CloseConnection
\* an inbox whose newest event is received first
RecvNewest(rx) == rx[Len(rx)]

\* rx.recv() on an inbox that holds events: the oldest one
recv(rx) == Head(rx)

Actor_recv(s) ==
    /\ loc[s].pc = "live"
    /\ inbox[s] # <<>>
    /\ inbox' = [inbox EXCEPT ![s] = Tail(@)]
    /\ LET Send(body) ==
               /\ \E ok \in WriteResults(s) :
                    /\ chan' = IF ok THEN Written(s, Record(s, body)) ELSE chan
                    /\ wire' = [wire EXCEPT ![s] = Append(@, Sent(body, ok))]
               /\ UNCHANGED <<loc, eof>>
           Handle(event) ==
               CASE event.type = "Message" -> Send(event.body)
                 [] event.type = "ConnectionAuthorized" ->
                      Send(ConnectionAuthorizedMessage)
                 [] OTHER -> Stop(s, "done", "close") /\ wire' = wire
       IN  Handle(recv(inbox[s]))
    /\ UNCHANGED <<target, hostile, eng, advLeft, engine_tx, sig_req,
                   sig_reply, upper, cx>>

\* the inbox branch once every sender of the inbox is gone: recv returns
\* None at once, `if let Some(event)` does nothing and the loop goes on
Actor_recv_none(s) ==
    /\ loc[s].pc = "live"
    /\ inbox[s] = <<>>
    /\ upper[s].sender = "dropped"
    /\ loc[s].polls < MaxPoll
    /\ loc' = [loc EXCEPT ![s].polls = @ + 1]
    /\ UNCHANGED <<target, hostile, wire, eng, advLeft, chan, eof, engine_tx,
                   sig_req, sig_reply, inbox, upper, cx>>

(***************************************************************************)
(* The engine's control operations, for a connection it was told of with   *)
(* NewConnection: each places one ConnectionEvent on the inbox.  The event *)
(* NewConnection carries the sender of the inbox; the engine holds it in   *)
(* its map under the peer's identity until disconnect removes it or the    *)
(* engine is dropped.                                                      *)
(***************************************************************************)
Surfaced(s) == \E i \in 1..Len(engine_tx[s]) : engine_tx[s][i].type = "NewConnection"

ConnectionEvent(type, body) == [type |-> type, body |-> body]

\* what the upper layers ask for in a run: with an adversary on the stream,
\* one chat message and one disconnect each
ChatBudget == IF hostile THEN 1 ELSE MaxChat
DisconnectBudget == IF hostile THEN 1 ELSE MaxDisconnect

\* the engine of s has the connection in its map
Routed(s) == Surfaced(s) /\ upper[s].sender = "held"

Engine_send_message(s) ==
    /\ Routed(s)
    /\ loc[s].pc = "live"
    /\ upper["dial"].chat + upper["acc"].chat < ChatBudget
    /\ upper' = [upper EXCEPT ![s].chat = @ + 1]
    /\ inbox' = [inbox EXCEPT ![s] = Append(@,
                   ConnectionEvent("Message",
                       ChatMessage(Now, LocalId(s), loc[s].peer_id,
                                   UpperText(upper[s].chat + 1))))]
    /\ UNCHANGED <<target, hostile, wire, eng,
                   advLeft, chan, eof, loc, engine_tx, sig_req,
                   sig_reply, cx>>

Engine_authorize ==
    /\ Routed("acc")
    /\ loc["acc"].pc = "live"
    /\ upper["acc"].authorize
    /\ upper' = [upper EXCEPT !["acc"].authorize = FALSE]
    /\ inbox' = [inbox EXCEPT !["acc"] =
                   Append(@, ConnectionEvent("ConnectionAuthorized", NoAuth))]
    /\ UNCHANGED <<target, hostile, wire, eng,
                   advLeft, chan, eof, loc, engine_tx, sig_req,
                   sig_reply, cx>>

\* the ConnectionAuthorized events s was sent and has not taken, and the
\* authorization records it handed to its writer
Authorizations(s) ==
    Len(SelectSeq(inbox[s], LAMBDA e : e.type = "ConnectionAuthorized"))
    + Len(SelectSeq(wire[s], LAMBDA w : w.body = ConnectionAuthorizedMessage))

\* authorize for a connection that needs none: an outgoing one, or an
\* incoming one that was authorized before
Engine_authorize_again(s) ==
    /\ Routed(s)
    /\ loc[s].pc = "live"
    /\ s = "acc" => ~upper["acc"].authorize
    /\ Authorizations(s) < (IF s = "acc" THEN MaxAuthorize ELSE MaxAuthorize - 1)
    /\ inbox' = [inbox EXCEPT ![s] =
                   Append(@, ConnectionEvent("ConnectionAuthorized", NoAuth))]
    /\ UNCHANGED <<target, hostile, wire, eng, advLeft, chan, eof, loc,
                   engine_tx, sig_req, sig_reply, upper, cx>>

\* disconnect that leaves the connection in the map
Engine_disconnect_keeps(s) ==
    /\ Routed(s)
    /\ loc[s].pc = "live"
    /\ upper[s].disconnect < DisconnectBudget
    /\ upper' = [upper EXCEPT ![s].disconnect = @ + 1, ![s].result = "ok"]
    /\ inbox' = [inbox EXCEPT ![s] =
                   Append(@, ConnectionEvent("CloseConnection", NoAuth))]
    /\ UNCHANGED <<target, hostile, wire, eng, advLeft, chan, eof, loc,
                   engine_tx, sig_req, sig_reply, cx>>

\* disconnect: the lookup of the peer's identity misses (a routing error),
\* or its inbox is taken out of the map and CloseConnection is sent on it
Engine_disconnect(s) ==
    /\ Surfaced(s)
    /\ upper[s].disconnect < DisconnectBudget
    /\ IF upper[s].sender = "held"
       THEN /\ loc[s].pc = "live"
            /\ upper' = [upper EXCEPT ![s].disconnect = @ + 1,
                                      ![s].sender = "removed",
                                      ![s].result = "ok"]
            /\ inbox' = [inbox EXCEPT ![s] =
                           Append(@, ConnectionEvent("CloseConnection", NoAuth))]
       ELSE /\ upper' = [upper EXCEPT ![s].disconnect = @ + 1,
                                      ![s].result = "routing_error"]
            /\ inbox' = inbox
    /\ UNCHANGED <<target, hostile, wire, eng,
                   advLeft, chan, eof, loc, engine_tx, sig_req,
                   sig_reply, cx>>

\* the engine is dropped by its owner, and with it every sender it holds
Engine_drop(s) ==
    /\ Routed(s)
    /\ upper' = [upper EXCEPT ![s].sender = "dropped"]
    /\ UNCHANGED <<target, hostile, wire, eng, advLeft, chan, eof, loc,
                   engine_tx, sig_req, sig_reply, inbox, cx>>

(***************************************************************************)
(* The adversary's other interventions.                                    *)
(***************************************************************************)
Adv_drop(r) ==
    /\ hostile /\ advLeft > 0
    /\ Ready(r)
    /\ chan' = Consumed(r)
    /\ advLeft' = advLeft - 1
    /\ UNCHANGED <<target, hostile, wire, eng,
                   eof, loc, engine_tx, sig_req, sig_reply,
                   inbox, upper, cx>>

Adv_cut(s) ==
    /\ hostile /\ advLeft > 0
    /\ ~eof[s]
    /\ eof' = [eof EXCEPT ![s] = TRUE]
    /\ advLeft' = advLeft - 1
    /\ UNCHANGED <<target, hostile, wire, eng,
                   chan, loc, engine_tx, sig_req, sig_reply,
                   inbox, upper, cx>>

(***************************************************************************)
(* The codec on its own: one writer, one reader, one message.              *)
(***************************************************************************)
\* the length of the shortest chat text drawn (the first test message)
MinMsgLen == 35

CodecIdle ==
    [pc |-> "idle", type |-> "raw", body |-> NoAuth, bytes |-> <<>>, key |-> 0,
     rkey |-> 0, frame |-> RawPacket(<<>>), result |-> OkNone]

CodecBodies ==
    {ChatMessage(Now, "A", "B", [i \in 1..n |-> 97 + (i % 2)]) :
        n \in MinMsgLen..(MinMsgLen + MsgLenSpan)}
    \cup {ChatMessage(Now, "B", "C", <<>>)}
    \cup {AuthMessage(to_string(i), sig) : i \in {"A"}, sig \in {0, 70000}}
    \cup {ConnectionAuthorizedMessage}

\* a message handed to send: a body, or bytes that stand for the
\* serialization of some message of that length
CodecInputs ==
    {[type |-> b.type, body |-> b, bytes |-> <<>>] : b \in CodecBodies}
    \cup {[type |-> "raw", body |-> NoAuth, bytes |-> [i \in 1..n |-> (i * 7) % 256]] :
            n \in 0..MaxSerLen}

\* serde_cbor::to_vec(message) in send
Serialized(c) == IF c.type = "raw" THEN c.bytes ELSE Serialize(c.body)

CodecKeys == {generate_symmetric_key(PriorSecret), generate_symmetric_key(AdvSecretWith("dial"))}

InitCodecInput ==
    cx \in {[CodecIdle EXCEPT !.pc = "input", !.type = c.type, !.body = c.body,
                              !.bytes = c.bytes, !.key = k[1], !.rkey = k[2]] :
               c \in CodecInputs, k \in CodecKeys \X CodecKeys}

\* EncryptingWriter::send
Codec_send ==
    /\ cx.pc = "input"
    /\ \E nonce \in {0, 1}, pad \in {0, 255} :
         cx' = [cx EXCEPT !.pc = "sent",
                          !.frame = EncryptingWriter_send(cx.key, nonce, pad,
                                                          Serialized(cx))]
    /\ UNCHANGED <<target, hostile, wire, eng,
                   advLeft, chan, eof, loc, engine_tx, sig_req,
                   sig_reply, inbox, upper>>

\* DecryptingReader::read
Codec_read ==
    /\ cx.pc = "sent"
    /\ cx' = [cx EXCEPT !.pc = "read",
                        !.result =
                            IF cx.type = "raw"
                            THEN LET plaintext == decrypt(cx.rkey, cx.frame)
                                 IN  IF plaintext.res = "Ok" THEN Unpad(plaintext.val)
                                     ELSE plaintext
                            ELSE DecryptingReader_read(cx.rkey, cx.type, cx.frame)]
    /\ UNCHANGED <<target, hostile, wire, eng,
                   advLeft, chan, eof, loc, engine_tx, sig_req,
                   sig_reply, inbox, upper>>

(***************************************************************************)
(* The engine of src/src/engine.rs, identity "A".  It keeps the record     *)
(* writer of every connection in a map keyed by the socket address of the  *)
(* connection; one handler task per connection reads the stream and sends  *)
(* EngineEvents to the engine's channel; the UI lists the chats and hands  *)
(* the engine the messages typed into them.  eng.streams[k] is the k-th    *)
(* stream the engine completed a handshake on, eng.got the records the     *)
(* engine wrote (on which stream, for which recipient), eng.last the       *)
(* outcome of the last message typed.                                      *)
(***************************************************************************)
\* config.tor_proxy_address as a socket address; an accepted stream has an
\* address of its own
ProxyAddr == 0

Connection(address, id, direction) ==
    [address |-> address, id |-> id, direction |-> direction]

EngineEvent(type, connection) == [type |-> type, connection |-> connection]

HashMap_insert(map, key, value) ==
    [a \in DOMAIN map \cup {key} |-> IF a = key THEN value ELSE map[a]]

HashMap_remove(map, key) == [a \in DOMAIN map \ {key} |-> map[a]]

\* ChatList::remove: swap_remove of the first entry equal to connection
ChatList_remove(list, connection) ==
    IF \E i \in DOMAIN list : list[i] = connection
    THEN LET index == CHOOSE i \in DOMAIN list :
                         /\ list[i] = connection
                         /\ \A j \in 1..(i - 1) : list[j] # connection
         IN [i \in 1..(Len(list) - 1) |->
                IF i = index THEN list[Len(list)] ELSE list[i]]
    ELSE list

\* the loop that drives the engine goes on: Engine::run has not panicked and
\* App::run has not returned an error
Running == ~eng.panicked /\ ~eng.failed

\* the streams opened or being opened
Streams == Len(eng.streams)
           + Cardinality({i \in DOMAIN eng.rx : eng.rx[i].type = "ClientConnection"})

NewStream(connection) == [connection |-> connection, pc |-> "new"]

\* tx.send(event).await returns once the channel has room for the events
Room(n) == Len(eng.rx) + n <= MaxRx

\* Engine::connect and the task it spawns: every outgoing connection is
\* given the address of the proxy
connect(id) ==
    /\ Running
    /\ Streams < MaxStream
    /\ Room(1)
    /\ eng' = [eng EXCEPT !.rx = Append(@, EngineEvent("ClientConnection",
                                Connection(ProxyAddr, id, "Outgoing")))]
    /\ UNCHANGED <<target, hostile, advLeft, chan, eof, loc, engine_tx,
                   sig_req, sig_reply, inbox, upper, wire, cx>>

\* Engine::handle_accept, after a handshake with the peer id
handle_accept(id) ==
    /\ Running
    /\ Streams < MaxStream
    /\ LET k == Len(eng.streams) + 1
       IN eng' = [eng EXCEPT
                    !.writers = HashMap_insert(@, k, k),
                    !.streams = Append(@, NewStream(Connection(k, id, "Incoming")))]
    /\ UNCHANGED <<target, hostile, advLeft, chan, eof, loc, engine_tx,
                   sig_req, sig_reply, inbox, upper, wire, cx>>

\* Engine::get_network_event on an accepted stream, called from
\* App::handle_events: after a handshake with the peer id the connection is
\* set up and NewConnection returned, on which the app lists the chat; a
\* failed handshake is returned with `?`, App::handle_events passes the
\* error on and App::run ends
get_network_event_accept(id) ==
    /\ Running
    /\ Streams < MaxStream
    /\ \E handshake \in BOOLEAN :
         LET k == Len(eng.streams) + 1
         IN eng' = IF handshake
                   THEN [eng EXCEPT
                           !.writers = HashMap_insert(@, k, k),
                           !.streams = Append(@, NewStream(Connection(k, id, "Incoming"))),
                           !.chat_list = Append(@, Connection(k, id, "Incoming")),
                           !.chats = @ \cup {id}]
                   ELSE [eng EXCEPT !.failed = TRUE]
    /\ UNCHANGED <<target, hostile, advLeft, chan, eof, loc, engine_tx,
                   sig_req, sig_reply, inbox, upper, wire, cx>>

\* Engine::handle_connection, the handler task of stream k, one step
handle_connection(k) ==
    /\ Running
    /\ LET connection == eng.streams[k].connection
       IN \/ /\ eng.streams[k].pc = "new"
             /\ Room(1)
             /\ eng' = [eng EXCEPT
                          !.rx = Append(@, EngineEvent("NewConnection", connection)),
                          !.streams[k].pc = "reading"]
          \/ /\ eng.streams[k].pc = "reading"
             /\ Room(1)
             /\ eng' = [eng EXCEPT
                          !.rx = Append(@, EngineEvent("Message", connection))]
          \/ /\ eng.streams[k].pc = "reading"
             /\ \E failed \in BOOLEAN :
                  /\ Room(IF failed THEN 2 ELSE 1)
                  /\ eng' = [eng EXCEPT
                               !.rx = @ \o (IF failed
                                            THEN <<EngineEvent("Error", connection)>>
                                            ELSE <<>>)
                                        \o <<EngineEvent("ConnectionClosed", connection)>>,
                               !.streams[k].pc = "ended"]
    /\ UNCHANGED <<target, hostile, advLeft, chan, eof, loc, engine_tx,
                   sig_req, sig_reply, inbox, upper, wire, cx>>

\* Engine::handle_network_event on the next event of the engine's channel
handle_network_event ==
    /\ Running
    /\ eng.rx # <<>>
    /\ LET Handle(event) ==
             CASE event.type = "ClientConnection" ->
                    [eng EXCEPT
                       !.rx = Tail(@),
                       !.writers = HashMap_insert(@, event.connection.address,
                                                  Len(eng.streams) + 1),
                       !.streams = Append(@, NewStream(event.connection))]
               [] event.type = "NewConnection" ->
                    [eng EXCEPT
                       !.rx = Tail(@),
                       !.chat_list = Append(@, event.connection),
                       !.chats = @ \cup {event.connection.id}]
               [] event.type = "ConnectionClosed" ->
                    [eng EXCEPT
                       !.rx = Tail(@),
                       !.writers = HashMap_remove(@, event.connection.address),
                       !.chat_list = ChatList_remove(@, event.connection),
                       !.chats = @ \ {event.connection.id}]
               [] OTHER -> [eng EXCEPT !.rx = Tail(@)]
       IN eng' = Handle(Head(eng.rx))
    /\ UNCHANGED <<target, hostile, advLeft, chan, eof, loc, engine_tx,
                   sig_req, sig_reply, inbox, upper, wire, cx>>

\* Engine::run on InputEvent::Message: the UI hands over a message typed
\* into one of its chats; the writer is looked up by the address of the
\* recipient and unwrapped
run_Message(recipient) ==
    /\ Running
    /\ eng.inputs < MaxChat
    /\ recipient.id \in eng.chats
    /\ LET Outcome(routed, stream, result) ==
             [eng EXCEPT
                !.inputs = @ + 1,
                !.panicked = result = "panic",
                !.got = IF result = "ok"
                        THEN Append(@, [stream |-> stream, to |-> recipient.id])
                        ELSE @,
                !.last = [to |-> recipient.id, routed |-> routed,
                          result |-> result]]
       IN IF recipient.address \notin DOMAIN eng.writers
          THEN eng' = Outcome(FALSE, 0, "panic")
          ELSE LET k == eng.writers[recipient.address]
               IN \E result \in (IF eng.streams[k].pc = "ended"
                                 THEN {"ok", "error"} ELSE {"ok"}) :
                    eng' = Outcome(TRUE, k, result)
    /\ UNCHANGED <<target, hostile, advLeft, chan, eof, loc, engine_tx,
                   sig_req, sig_reply, inbox, upper, wire, cx>>

(***************************************************************************)
(* The specifications.                                                     *)
(***************************************************************************)
\* the engine of src/src/engine.rs before any connection
EngineIdle ==
    [writers |-> <<>>, streams |-> <<>>, rx |-> <<>>, chat_list |-> <<>>,
     chats |-> {}, inputs |-> 0, got |-> <<>>, panicked |-> FALSE,
     failed |-> FALSE,
     last |-> [to |-> "none", routed |-> TRUE, result |-> "none"]]

InitLocals ==
    [pc |-> "start", err |-> "none", shared_secret |-> 0, encryption_key |-> 0,
     session_hash |-> 0, peer_id |-> "none", peer_auth |-> NoAuth,
     authorized_read |-> "none", flipped |-> "none", hello |-> <<>>,
     polls |-> 0, body |-> "none"]

InitSession ==
    /\ advLeft = MaxAdv
    /\ chan = [s \in Sides |-> <<>>]
    /\ eof = [s \in Sides |-> FALSE]
    /\ loc = [s \in Sides |-> InitLocals]
    /\ engine_tx = [s \in Sides |-> <<>>]
    /\ sig_req = [s \in Sides |-> NoSig]
    /\ sig_reply = [s \in Sides |-> NoSig]
    /\ inbox = [s \in Sides |-> <<>>]
    /\ upper = [s \in Sides |-> [chat |-> 0, authorize |-> TRUE,
                                  disconnect |-> 0, sender |-> "held",
                                  result |-> "none"]]
    /\ wire = [s \in Sides |-> <<>>]

Init ==
    /\ \E th \in {<<"B", FALSE>>, <<"B", TRUE>>, <<"C", TRUE>>} :
         target = th[1] /\ hostile = th[2]
    /\ InitSession
    /\ cx = CodecIdle
    /\ eng = EngineIdle

Next ==
    \/ Connect_SendKey
    \/ Connect_ReadKey
    \/ Accept_KeyExchange
    \/ \E s \in Sides : KeyTimeout(s)
    \/ \E s \in Sides : Engine_sign_data(s)
    \/ Connect_SendAuth
    \/ Connect_ReadAuth
    \/ Accept_ReadAuth
    \/ Accept_SendAuth
    \/ Connect_ReadAuthorized
    \/ \E s \in Sides : Actor_read(s)
    \/ \E s \in Sides : Actor_recv(s)
    \/ \E s \in Sides : Actor_recv_none(s)
    \/ \E s \in Sides : Engine_send_message(s)
    \/ Engine_authorize
    \/ \E s \in Sides : Engine_disconnect(s)
    \/ \E s \in Sides : Engine_drop(s)
    \/ \E r \in Sides : Adv_drop(r)
    \/ \E s \in Sides : Adv_cut(s)

Spec == Init /\ [][Next]_vars

(***************************************************************************)
(* The handshake of two honest endpoints over a reliable stream: no        *)
(* timeout expires, no write fails, the acceptor's upper layer authorizes  *)
(* the peer, and once both sides are live the upper layers chat,           *)
(* disconnect and authorize again.                                         *)
(***************************************************************************)
InitHandshake ==
    /\ target = "B" /\ hostile = FALSE
    /\ InitSession
    /\ cx = CodecIdle
    /\ eng = EngineIdle

NextHandshake ==
    \/ Connect_SendKey
    \/ Connect_ReadKey
    \/ Accept_KeyExchange
    \/ \E s \in Sides : Engine_sign_data(s)
    \/ Connect_SendAuth
    \/ Connect_ReadAuth
    \/ Accept_ReadAuth
    \/ Accept_SendAuth
    \/ Engine_authorize
    \/ Connect_ReadAuthorized
    \/ \E s \in Sides : Actor_recv(s)
    \/ \E s \in Sides : Actor_read(s)
    \/ \E s \in Sides : Engine_send_message(s) /\ Surfaced("dial")
    \/ \E s \in Sides : Engine_disconnect(s) /\ Surfaced("dial")
    \/ \E s \in Sides : Engine_authorize_again(s) /\ Surfaced("dial")

SpecHandshake == InitHandshake /\ [][NextHandshake]_vars

InitCodec ==
    /\ target = "B" /\ hostile = FALSE
    /\ InitSession
    /\ eng = EngineIdle
    /\ InitCodecInput

NextCodec == Codec_send \/ Codec_read

SpecCodec == InitCodec /\ [][NextCodec]_vars

(***************************************************************************)
(* read_peer_public_key on its own: a peer wrote its opening packet        *)
(* (cx.bytes) and the stream hands the reader the first chunk of it        *)
(* (cx.frame), the whole packet or a proper prefix.                        *)
(***************************************************************************)
InitKeyRead ==
    /\ target = "B" /\ hostile = FALSE
    /\ InitSession
    /\ eng = EngineIdle
    /\ cx \in {[CodecIdle EXCEPT
                   !.pc = "key",
                   !.bytes = KeyPacket(va[1], va[2], PublicKey_from(EphemeralSecret(who))),
                   !.frame = RawPacket(SubSeq(KeyPacket(va[1], va[2],
                                 PublicKey_from(EphemeralSecret(who))), 1, n))] :
                va \in {<<PROTOCOL_VERSION, ALGORITHM_CHACHA20POLY1305>>,
                        <<PROTOCOL_VERSION + 1, ALGORITHM_CHACHA20POLY1305>>,
                        <<PROTOCOL_VERSION, ALGORITHM_CHACHA20POLY1305 + 1>>},
                who \in {"dial", "acc", "adv"},
                n \in 1..(KEY_LEN + 2)}

\* read_peer_public_key: one read_buf, then the checks on what it returned
Key_read ==
    /\ cx.pc = "key"
    /\ cx' = [cx EXCEPT !.pc = "keyread",
                        !.result = read_peer_public_key(WireBytes(cx.frame))]
    /\ UNCHANGED <<target, hostile, wire, eng,
                   advLeft, chan, eof, loc, engine_tx, sig_req,
                   sig_reply, inbox, upper>>

SpecKeyRead == InitKeyRead /\ [][Key_read]_vars

InitEngine ==
    /\ target = "B" /\ hostile = FALSE
    /\ InitSession
    /\ cx = CodecIdle
    /\ eng = EngineIdle

NextEngine ==
    \/ \E id \in Ids \ {"A"} : connect(id)
    \/ \E id \in Ids \ {"A"} : handle_accept(id)
    \/ \E id \in Ids \ {"A"} : get_network_event_accept(id)
    \/ \E k \in DOMAIN eng.streams : handle_connection(k)
    \/ handle_network_event
    \/ \E i \in DOMAIN eng.chat_list : run_Message(eng.chat_list[i])

SpecEngine == InitEngine /\ [][NextEngine]_vars

(***************************************************************************)
(* ChatList of src/src/chat.rs on its own: the list of the peers the app   *)
(* has a chat with and the index of the selected one (from 0, as in the    *)
(* source), held in eng.  eng.last records the last operation: the peer it *)
(* was given and the peer that was selected before it.                     *)
(***************************************************************************)
\* Option::None, for an index and for a peer
None == 0 - 1
NoPeer == "none"

\* ChatList::add
add(cl, id) ==
    [cl EXCEPT !.list = Append(@, id), !.current_index = Len(cl.list)]

\* ChatList::remove: swap_remove of the first entry equal to id, then the
\* index is moved down when it is not before the removed entry
remove(cl, id) ==
    IF \E i \in DOMAIN cl.list : cl.list[i] = id
    THEN LET index == (CHOOSE i \in DOMAIN cl.list :
                          /\ cl.list[i] = id
                          /\ \A j \in 1..(i - 1) : cl.list[j] # id) - 1
             list == [i \in 1..(Len(cl.list) - 1) |->
                        IF i = index + 1 THEN cl.list[Len(cl.list)] ELSE cl.list[i]]
         IN  IF list = <<>>
             THEN [cl EXCEPT !.list = list, !.current_index = None]
             ELSE IF cl.current_index = None
                  THEN [cl EXCEPT !.list = list, !.panicked = TRUE]
                  ELSE IF cl.current_index >= index
                       THEN [cl EXCEPT !.list = list,
                                       !.current_index = IF @ = 0 THEN None ELSE @ - 1]
                       ELSE [cl EXCEPT !.list = list]
    ELSE cl

\* ChatList::current
current(cl) ==
    IF cl.current_index = None THEN NoPeer
    ELSE IF cl.current_index < Len(cl.list) THEN cl.list[cl.current_index + 1]
    ELSE NoPeer

\* ChatList::next_chat
next_chat(cl) ==
    IF cl.current_index = None THEN cl
    ELSE [cl EXCEPT !.current_index = IF @ = Len(cl.list) - 1 THEN 0 ELSE @ + 1]

\* ChatList::prev_chat
prev_chat(cl) ==
    IF cl.current_index = None THEN cl
    ELSE [cl EXCEPT !.current_index = IF @ = 0 THEN Len(cl.list) - 1 ELSE @ - 1]

\* ChatList::default
InitChatList ==
    /\ target = "B" /\ hostile = FALSE
    /\ InitSession
    /\ cx = CodecIdle
    /\ eng = [list |-> <<>>, current_index |-> None, panicked |-> FALSE,
              last |-> [op |-> "none", id |-> NoPeer, current |-> NoPeer]]

\* App::handle_events on NewConnection
ChatList_add ==
    \E id \in Ids :
        /\ ~eng.panicked
        /\ Len(eng.list) < MaxList
        /\ eng' = [add(eng, id) EXCEPT
                    !.last = [op |-> "add", id |-> id, current |-> current(eng)]]
        /\ UNCHANGED <<target, hostile, advLeft, chan, eof, loc, engine_tx,
                       sig_req, sig_reply, inbox, upper, wire, cx>>

\* App::handle_events on ConnectionClosed, App::handle_input_event on /quit
ChatList_remove_id ==
    \E id \in Ids :
        /\ ~eng.panicked
        /\ eng' = [remove(eng, id) EXCEPT
                    !.last = [op |-> "remove", id |-> id, current |-> current(eng)]]
        /\ UNCHANGED <<target, hostile, advLeft, chan, eof, loc, engine_tx,
                       sig_req, sig_reply, inbox, upper, wire, cx>>

\* the key that selects the next chat
ChatList_next_chat ==
    /\ ~eng.panicked
    /\ eng' = [next_chat(eng) EXCEPT
                !.last = [op |-> "next_chat", id |-> NoPeer, current |-> current(eng)]]
    /\ UNCHANGED <<target, hostile, advLeft, chan, eof, loc, engine_tx,
                   sig_req, sig_reply, inbox, upper, wire, cx>>

\* the key that selects the previous chat
ChatList_prev_chat ==
    /\ ~eng.panicked
    /\ eng' = [prev_chat(eng) EXCEPT
                !.last = [op |-> "prev_chat", id |-> NoPeer, current |-> current(eng)]]
    /\ UNCHANGED <<target, hostile, advLeft, chan, eof, loc, engine_tx,
                   sig_req, sig_reply, inbox, upper, wire, cx>>

NextChatList ==
    \/ ChatList_add
    \/ ChatList_remove_id
    \/ ChatList_next_chat
    \/ ChatList_prev_chat

SpecChatList == InitChatList /\ [][NextChatList]_vars

\* ---------------------------------------------------------------------
\* Command::from_str (src/src/commands.rs).  A string is a sequence of
\* pieces: " " is whitespace, every other piece is a run of letters, and
\* pieces that follow each other without whitespace form one word, so a
\* token is the sequence of its pieces (<<"help">> is the word help,
\* <<"help", "x">> the word helpx).

\* the longest input string, in pieces
MaxString == 5

\* str::split_whitespace: the maximal runs of non-whitespace, in order
RECURSIVE split_whitespace(_)
split_whitespace(string) ==
    IF string = <<>> THEN <<>>
    ELSE IF Head(string) = " " THEN split_whitespace(Tail(string))
    ELSE LET n == CHOOSE k \in 1..Len(string) :
                      /\ \A i \in 1..k : string[i] # " "
                      /\ (k = Len(string) \/ string[k + 1] = " ")
         IN  <<SubSeq(string, 1, n)>>
                 \o split_whitespace(SubSeq(string, n + 1, Len(string)))

\* a from_str that takes the address of connect and ignores what follows it
Command_from_str_lenient(string) ==
    LET tokens == split_whitespace(string)
    IN  IF tokens # <<>>
        THEN CASE tokens[1] = <<"connect">> ->
                    IF Len(tokens) < 2 THEN Err
                    ELSE Ok([cmd |-> "Connect", arg |-> tokens[2]])
               [] tokens[1] = <<"help">> ->
                    IF Len(tokens) = 1 THEN Ok([cmd |-> "Help", arg |-> <<>>])
                    ELSE IF Len(tokens) = 2 THEN Ok([cmd |-> "Help", arg |-> tokens[2]])
                    ELSE Err
               [] tokens[1] = <<"quit">> -> Ok([cmd |-> "Quit", arg |-> <<>>])
               [] OTHER -> Err
        ELSE Err

\* <Command as FromStr>::from_str; arg <<>> is the None of Help's command
Command_from_str(string) ==
    LET tokens == split_whitespace(string)
    IN  IF tokens # <<>>
        THEN CASE tokens[1] = <<"connect">> ->
                    IF Len(tokens) # 2 THEN Err
                    ELSE Ok([cmd |-> "Connect", arg |-> tokens[2]])
               [] tokens[1] = <<"help">> ->
                    IF Len(tokens) = 1 THEN Ok([cmd |-> "Help", arg |-> <<>>])
                    ELSE IF Len(tokens) = 2 THEN Ok([cmd |-> "Help", arg |-> tokens[2]])
                    ELSE Err
               [] tokens[1] = <<"quit">> -> Ok([cmd |-> "Quit", arg |-> <<>>])
               [] OTHER -> Err
        ELSE Err

\* a line typed at the command prompt
InitCommand ==
    /\ target = "B"
    /\ hostile = FALSE
    /\ InitSession
    /\ eng = EngineIdle
    /\ \E n \in 0..MaxString :
         \E string \in [1..n -> {" ", "connect", "help", "quit", "x"}] :
            cx = [pc |-> "command", string |-> string, result |-> OkNone]

Command_parse ==
    /\ cx.pc = "command"
    /\ cx' = [cx EXCEPT !.pc = "parsed", !.result = Command_from_str(cx.string)]
    /\ UNCHANGED <<target, hostile, advLeft, chan, eof, loc, engine_tx,
                   sig_req, sig_reply, inbox, upper, wire, eng>>

SpecCommand == InitCommand /\ [][Command_parse]_vars

(***************************************************************************)
(* Properties of the handshake.                                            *)
(***************************************************************************)
\* the NewConnection events the engine of s was sent
NewConnections(s) ==
    {engine_tx[s][i] : i \in {j \in 1..Len(engine_tx[s]) :
                                 engine_tx[s][j].type = "NewConnection"}}

\* s has read an AuthMessage of its peer
AuthRead(s) == loc[s].peer_auth # NoAuth

\* s rejected the AuthMessage it read
Rejected(s) == loc[s].pc = "closed" /\ loc[s].err = "verify" /\ ~Surfaced(s)

\* C1: an AuthMessage whose embedded service_id is not the text of the
\* identity the reading side expected is rejected and no NewConnection is
\* sent.  The dialer expects the identity of the dial address; the
\* acceptor expects the identity it reports upward, so every NewConnection
\* of either side names the identity embedded in the AuthMessage read.
ImpersonationRejected ==
    \A s \in Sides :
        AuthRead(s) =>
            /\ (s = "dial" /\ loc[s].peer_auth.service_id # to_string(target))
                  => Rejected(s)
            /\ \A e \in NewConnections(s) :
                  loc[s].peer_auth.service_id = to_string(e.info.id)

\* C1, its case: the dialer read an AuthMessage that names another identity
\* than the one dialed, with a signature valid for the identity it names,
\* and closed
ImpersonationSeen ==
    /\ AuthRead("dial")
    /\ loc["dial"].peer_auth.service_id # to_string(target)
    /\ Verify(verifying_key(from_str(loc["dial"].peer_auth.service_id)),
              generate_auth_data(from_str(loc["dial"].peer_auth.service_id),
                                 loc["dial"].session_hash),
              loc["dial"].peer_auth.signature)
    /\ Rejected("dial")

\* the shared secrets of the sessions there are
Secrets == {PriorSecret, AdvSecretWith("dial"), AdvSecretWith("acc")}

\* the client and the server of the session s is in
SessionClient(s) == IF s = "dial" THEN "A" ELSE loc[s].peer_id
SessionServer(s) == IF s = "dial" THEN target ELSE "B"

\* the AuthMessage s read was produced by the identity it names in a
\* session of the same two identities with the shared secret s1
ProducedWith(s, s1) ==
    LET signer == from_str(loc[s].peer_auth.service_id)
    IN  /\ signer # "invalid"
        /\ loc[s].peer_auth.signature =
              Sign(signing_key(signer),
                   generate_auth_data(signer,
                       generate_session_hash(SessionClient(s), SessionServer(s), s1)))

\* C2: an AuthMessage produced in a session with another shared secret than
\* the reader's, for the same two identities, is rejected by the reader
ReplayRejected ==
    \A s \in Sides : \A s1 \in Secrets :
        (AuthRead(s) /\ s1 # loc[s].shared_secret /\ ProducedWith(s, s1))
            => Rejected(s)

\* C2, its case: a side read an AuthMessage signed in another session
ReplaySeen ==
    \E s \in Sides : \E s1 \in Secrets :
        /\ AuthRead(s) /\ s1 # loc[s].shared_secret /\ ProducedWith(s, s1)
        /\ Rejected(s)

\* C3: in an honest run both sides compute the same session hash, over the
\* dialer's then the acceptor's identity and the shared secret, and each
\* side accepts the AuthMessage the other signed over it
HonestHashesAgree ==
    ~hostile =>
        /\ (loc["dial"].session_hash # 0 /\ loc["acc"].session_hash # 0)
              => /\ loc["dial"].session_hash = loc["acc"].session_hash
                 /\ loc["dial"].session_hash =
                       generate_session_hash("A", "B", loc["dial"].shared_secret)
        /\ \A s \in Sides :
              AuthRead(s) =>
                  /\ loc[s].err # "verify"
                  /\ loc[s].peer_auth.service_id = to_string(LocalId(Peer(s)))
                  /\ Verify(verifying_key(LocalId(Peer(s))),
                            generate_auth_data(LocalId(Peer(s)), loc[s].session_hash),
                            loc[s].peer_auth.signature)

\* C3, its case: an honest run in which both sides have read and accepted
\* the other's AuthMessage
HonestBothVerified ==
    /\ ~hostile
    /\ AuthRead("dial") /\ AuthRead("acc")
    /\ loc["dial"].pc = "wait_authz" /\ loc["acc"].pc = "live"

\* C4: when an honest client and an honest server have both completed
\* key_exchange on one stream they hold the same shared secret and the
\* same AEAD key
HonestKeysAgree ==
    (~hostile /\ loc["dial"].shared_secret # 0 /\ loc["acc"].shared_secret # 0)
        => /\ loc["dial"].shared_secret = loc["acc"].shared_secret
           /\ loc["dial"].encryption_key = loc["acc"].encryption_key
           /\ loc["dial"].encryption_key =
                 generate_symmetric_key(loc["acc"].shared_secret)

\* C4, its case: both honest sides are past key_exchange
HonestBothKeyed ==
    ~hostile /\ loc["dial"].shared_secret # 0 /\ loc["acc"].shared_secret # 0

\* C5: the dialer sends NewConnection and goes live only after it has read
\* a ConnectionAuthorizedMessage record; when the stream ends or fails
\* before that record the dial fails and no NewConnection is sent
DialLiveOnlyAuthorized ==
    /\ Surfaced("dial") => loc["dial"].authorized_read = "Ok"
    /\ loc["dial"].authorized_read = "None" => loc["dial"].pc = "closed"

\* an attempt of s met an error before Live: its handshake returned Err, or
\* the stream ended while it waited for the authorization
FailedBeforeLive(s) ==
    loc[s].pc = "closed" \/ loc[s].authorized_read = "None"

\* C6: an error in a phase before Live takes the attempt to Closed and no
\* NewConnection is sent for it, on the dialing and on the accepting side
ErrorBeforeLiveCloses ==
    \A s \in Sides :
        FailedBeforeLive(s) => (loc[s].pc = "closed" /\ ~Surfaced(s))

\* C7: every NewConnection carries a ConnectionInfo made after the peer's
\* AuthMessage verified in this session: Outgoing for the dialer, Incoming
\* for the acceptor, with the identity whose key signed this session's
\* hash, which for the dialer is the identity of the dial address
NewConnectionVerified ==
    \A s \in Sides : \A e \in NewConnections(s) :
        /\ e.info.direction = IF s = "dial" THEN "Outgoing" ELSE "Incoming"
        /\ AuthRead(s)
        /\ loc[s].peer_auth.service_id = to_string(e.info.id)
        /\ loc[s].session_hash =
              generate_session_hash(SessionClient(s), SessionServer(s),
                                    loc[s].shared_secret)
        /\ Verify(verifying_key(e.info.id),
                  generate_auth_data(e.info.id, loc[s].session_hash),
                  loc[s].peer_auth.signature)
        /\ e.info.id = IF s = "dial" THEN target ELSE SessionClient(s)

\* C7, its case: each side has sent its NewConnection
BothSurfaced == Surfaced("dial") /\ Surfaced("acc")

(***************************************************************************)
(* Properties of the record codec.                                         *)
(***************************************************************************)
\* C8: a reader keyed like the writer returns exactly the body the writer
\* was given, whatever the length of its serialization
RoundTrip ==
    (cx.pc = "read" /\ cx.rkey = cx.key)
        => cx.result = Ok(IF cx.type = "raw" THEN cx.bytes ELSE cx.body)

\* C8, its case: a chat message whose record has no padding came back
RoundTripNoPadding ==
    /\ cx.pc = "read" /\ cx.rkey = cx.key
    /\ cx.type = "ChatMessage"
    /\ cx.frame.pt[1] = 0
    /\ cx.result = Ok(cx.body)

\* C9: the plaintext of a record of n body bytes has the smallest length L
\* that is a multiple of 64 with L >= n + 1; its first byte is
\* pad_len = L - 1 - n, within 0..63, then come the n body bytes and pad_len
\* bytes of padding (n = 0: 64; n = 63: 64 and pad_len 0; n = 64: 128)
PaddingArithmetic ==
    cx.pc \in {"sent", "read"} =>
        LET n == Len(Serialized(cx))
            pt == cx.frame.pt
            L == Len(pt)
        IN  /\ L % 64 = 0 /\ L >= n + 1 /\ L - 64 < n + 1
            /\ pt[1] = L - 1 - n
            /\ pt[1] \in 0..63
            /\ SubSeq(pt, 2, n + 1) = Serialized(cx)
            /\ L = 1 + n + pt[1]
            /\ n = 0 => L = 64
            /\ n = 63 => (L = 64 /\ pt[1] = 0)
            /\ n = 64 => L = 128

\* C9, its case: a body of 63 bytes was sent in one block without padding
FullBlockSent ==
    /\ cx.pc = "sent"
    /\ Len(Serialized(cx)) = 63
    /\ Len(cx.frame.pt) = 64
    /\ cx.frame.pt[1] = 0

(***************************************************************************)
(* Properties of the live loop.                                            *)
(***************************************************************************)
\* the live reader of s takes a record of which a bit was changed
ReadsTampered(s) ==
    /\ loc[s].pc = "live"
    /\ loc[s].flipped = "none"
    /\ loc'[s].flipped # "none"

\* C10: when the live reader takes a record of which a bit of the nonce,
\* of the ciphertext or of the tag was changed, it sends no Message for
\* it, sends Error and ConnectionClosed, and its actor ends
TamperedRecordCloses ==
    [][\A s \in Sides :
          ReadsTampered(s) =>
              /\ engine_tx'[s] =
                    engine_tx[s] \o <<Error, ConnectionClosed(ConnectionInfo(s))>>
              /\ loc'[s].pc = "done"
              /\ eof'[s]]_vars

\* C10, its case: an actor ended on a record changed in transit
TamperedRecordRead ==
    \E s \in Sides :
        /\ loc[s].flipped # "none"
        /\ loc[s].pc = "done" /\ loc[s].err = "read"

(***************************************************************************)
(* Properties of the key exchange.                                         *)
(***************************************************************************)
\* the opening packet s read has another version byte than 1 or another
\* algorithm byte than 0
BadHello(s) ==
    /\ Len(loc[s].hello) = 2
    /\ loc[s].hello[1] # 1 \/ loc[s].hello[2] # 0

\* C11: when the opening packet read from the peer has a version byte
\* other than 1 or an algorithm byte other than 0, key_exchange fails (no
\* secret is derived), the attempt is closed and no NewConnection is sent
BadHelloCloses ==
    \A s \in Sides :
        BadHello(s) =>
            /\ loc[s].pc = "closed" /\ loc[s].err = "key_exchange"
            /\ loc[s].shared_secret = 0
            /\ ~Surfaced(s)

\* C11, its case: both kinds of bad opening packet were read, a wrong
\* version by one side and a wrong algorithm by the other
BadHelloSeen ==
    \E s \in Sides :
        /\ BadHello(s) /\ loc[s].hello[1] # 1 /\ loc[s].pc = "closed"
        /\ BadHello(Peer(s)) /\ loc[Peer(s)].hello[2] # 0

(***************************************************************************)
(* Properties of the event stream and of the inbox.                        *)
(***************************************************************************)
\* the events of one type the engine of s was sent, in order
EventsOf(s, type) == SelectSeq(engine_tx[s], LAMBDA e : e.type = type)

\* the chat messages the engine of s was sent, in order
MessagesIn(s) == [i \in 1..Len(EventsOf(s, "Message")) |-> EventsOf(s, "Message")[i].body]

\* the chat messages s handed to its writer, in order: every one, and the
\* ones whose write succeeded
ChatsHanded(s) ==
    LET chats == SelectSeq(wire[s], LAMBDA w : w.body.type = "ChatMessage")
    IN  [i \in 1..Len(chats) |-> chats[i].body]
ChatsWritten(s) ==
    LET chats == SelectSeq(wire[s], LAMBDA w : w.body.type = "ChatMessage" /\ w.ok)
    IN  [i \in 1..Len(chats) |-> chats[i].body]

\* the chat messages waiting on the inbox of s, in order
ChatsQueued(s) ==
    LET chats == SelectSeq(inbox[s], LAMBDA e : e.type = "Message")
    IN  [i \in 1..Len(chats) |-> chats[i].body]

\* C12: on the event stream of a connection NewConnection comes before
\* every Message and before ConnectionClosed, and no Message comes after
\* ConnectionClosed
EventOrder ==
    \A s \in Sides : \A i \in 1..Len(engine_tx[s]) :
        /\ engine_tx[s][i].type \in {"Message", "ConnectionClosed"}
              => \E j \in 1..(i - 1) : engine_tx[s][j].type = "NewConnection"
        /\ engine_tx[s][i].type = "Message"
              => \A j \in 1..(i - 1) : engine_tx[s][j].type # "ConnectionClosed"

\* C12, its case: an engine was sent NewConnection, then a Message, then
\* ConnectionClosed
EventOrderSeen ==
    \E s \in Sides : \E i, j, k \in 1..Len(engine_tx[s]) :
        /\ i < j /\ j < k
        /\ engine_tx[s][i].type = "NewConnection"
        /\ engine_tx[s][j].type = "Message"
        /\ engine_tx[s][k].type = "ConnectionClosed"

\* C13: on an honest stream the Message events of a connection are, one
\* for one and in order, the chat records its peer wrote: always a prefix
\* of them, and all of them once the live reader has read everything
MessagesFollowWire ==
    ~hostile =>
        \A s \in Sides :
            /\ Len(MessagesIn(s)) <= Len(ChatsWritten(Peer(s)))
            /\ MessagesIn(s) = SubSeq(ChatsWritten(Peer(s)), 1, Len(MessagesIn(s)))
            /\ (loc[s].pc = "live" /\ Incoming(s) = <<>>)
                  => MessagesIn(s) = ChatsWritten(Peer(s))

\* C13, its case: two chat records of one writer were forwarded
TwoMessagesForwarded ==
    \E s \in Sides :
        /\ ~hostile /\ Len(MessagesIn(s)) = 2
        /\ MessagesIn(s)[1] # MessagesIn(s)[2]

\* C14: the chat messages handed to send for a peer pass through the inbox
\* in the order of the calls, and the actor hands its writer one record for
\* each in that order: what the writer was handed, followed by what still
\* waits on the inbox, is the sequence of the calls
SendOrderKept ==
    \A s \in Sides :
        ChatsHanded(s) \o ChatsQueued(s) =
            [i \in 1..upper[s].chat |->
                ChatMessage(Now, LocalId(s), loc[s].peer_id, UpperText(i))]

\* C14, its case: two messages were handed to send for one peer and the
\* actor handed both to its writer, which wrote both
TwoMessagesWritten ==
    \E s \in Sides : Len(ChatsWritten(s)) = 2 /\ Len(ChatsHanded(s)) = 2


\* C15: a message handed to the engine for a recipient is written only to
\* the stream of a connection whose peer is that recipient, also while
\* several outgoing connections are open (engine of src/src/engine.rs)
SendReachesRecipient ==
    \A i \in DOMAIN eng.got :
        eng.streams[eng.got[i].stream].connection.id = eng.got[i].to

\* C16: a message handed to the engine for a recipient it holds no writer
\* for is answered with an error, and the engine goes on serving its other
\* connections (engine of src/src/engine.rs)
UnroutedSendSurfaced ==
    ~eng.last.routed => (eng.last.result = "error" /\ ~eng.panicked)

\* the actor of s left its loop on the CloseConnection that disconnect queued
ClosedByRequest(s) == loc[s].pc = "done" /\ loc[s].err = "close"

\* the ConnectionClosed events the engine of s was sent for its connection
ClosedEvents(s) ==
    {i \in DOMAIN engine_tx[s] : engine_tx[s][i] = ConnectionClosed(ConnectionInfo(s))}

\* C17: when the actor of a connection has torn down on the CloseConnection
\* that disconnect queued, a ConnectionClosed event for the connection has
\* been sent to the local engine (the actor is the only sender of the event
\* and sends nothing once it has ended)
DisconnectEmitsClosed ==
    \A s \in Sides : ClosedByRequest(s) => ClosedEvents(s) # {}

DisconnectIdempotent ==
    [][\A s \in Sides :
         (upper[s].disconnect >= 1 /\ upper'[s].disconnect = upper[s].disconnect + 1)
           => /\ upper'[s].result = "routing_error"
              /\ upper'[s].sender = upper[s].sender
              /\ upper'[Peer(s)] = upper[Peer(s)]
              /\ inbox' = inbox /\ loc' = loc /\ chan' = chan /\ eof' = eof
              /\ engine_tx' = engine_tx /\ wire' = wire]_vars

\* C19, its case: disconnect was called twice for one peer id, the first
\* call queued CloseConnection and the second got a routing error
DisconnectedTwice ==
    \E s \in Sides :
        /\ upper[s].disconnect = 2
        /\ upper[s].sender = "removed"
        /\ upper[s].result = "routing_error"

\* C20: an actor whose inbox read returned empty, the engine's sender being
\* dropped, has treated that as CloseConnection and is terminated
InboxClosedEndsActor ==
    \A s \in Sides : loc[s].polls > 0 => loc[s].pc \in Terminated

\* an endpoint waits in a handshake read for the peer's opening packet or
\* for its AuthMessage, and the stream is silent
SilentHandshakeRead(s) ==
    /\ loc[s].pc \in {IF s = "dial" THEN "kx_read" ELSE "start", "auth_read"}
    /\ Incoming(s) = <<>>
    /\ ~eof[Peer(s)]

\* C21: each handshake read, of the opening public-key packet and of the
\* first AuthMessage, runs under a timeout: whenever an endpoint waits in
\* one on a silent stream, the expiry that closes the attempt can happen
HandshakeReadsBounded ==
    \A s \in Sides : SilentHandshakeRead(s) => ENABLED KeyTimeout(s)

\* C22: an error local to one connection, such as a failed handshake on an
\* accepted stream, closes only that connection: while another connection
\* is live the engine goes on running and yielding events (engine of
\* src/src/engine.rs)
LocalErrorStaysLocal ==
    \A k \in DOMAIN eng.streams : eng.streams[k].pc = "reading" => Running

\* the writes of the live loop of s that failed
FailedLiveWrites(s) ==
    {i \in DOMAIN wire[s] : ~wire[s][i].ok /\ wire[s][i].body.type # "AuthMessage"}

\* C23: a failed record write in the live loop closes the connection and
\* emits ConnectionClosed: an actor that had a write fail is terminated and
\* has sent its engine ConnectionClosed for the connection
WriteFailureCloses ==
    \A s \in Sides :
        FailedLiveWrites(s) # {} => (loc[s].pc \in Terminated /\ ClosedEvents(s) # {})

\* C24: a ChatMessage record is written only on a live connection: the
\* acceptor has handed its writer the ConnectionAuthorizedMessage before any
\* ChatMessage, and the dialer hands its writer a ChatMessage only after it
\* received the ConnectionAuthorizedMessage record
ChatOnlyWhenLive ==
    \A s \in Sides : \A i \in DOMAIN wire[s] :
        wire[s][i].body.type = "ChatMessage" =>
            IF s = "acc"
            THEN \E j \in 1..(i - 1) : wire[s][j].body = ConnectionAuthorizedMessage
            ELSE loc[s].authorized_read = "Ok"

EndedOnEndOfStream(s) ==
    /\ loc[s].pc = "done"
    /\ loc[s].err = "none" \/ (~hostile /\ loc[s].err # "close")

\* C26: when the live reader reports the end of the stream the close is
\* clean: the actor has sent its engine exactly one ConnectionClosed, as the
\* last event, and no Error, is terminated, and sends nothing further
CleanClose ==
    /\ [](\A s \in Sides :
            EndedOnEndOfStream(s) =>
              /\ Len(EventsOf(s, "ConnectionClosed")) = 1
              /\ engine_tx[s][Len(engine_tx[s])] = ConnectionClosed(ConnectionInfo(s))
              /\ EventsOf(s, "Error") = <<>>)
    /\ [][\A s \in Sides :
            EndedOnEndOfStream(s) => (engine_tx'[s] = engine_tx[s] /\ loc'[s] = loc[s])]_vars

\* C26, its case: a live actor forwarded a chat message, then read the end
\* of the stream
CleanCloseSeen ==
    \E s \in Sides :
        /\ EndedOnEndOfStream(s)
        /\ loc[s].err = "none"
        /\ EventsOf(s, "Message") # <<>>

\* C27: a record that opens under the session key and whose padding length
\* does not fit its plaintext is a protocol error fatal to the connection:
\* the live actor that read it is terminated on the read error, not
\* aborted, and the events it sent its engine end with Error and
\* ConnectionClosed for the connection
MispaddedRecordCloses ==
    \A s \in Sides :
        loc[s].body = "mispadded" =>
            /\ loc[s].pc = "done" /\ loc[s].err = "read"
            /\ Len(engine_tx[s]) >= 2
            /\ SubSeq(engine_tx[s], Len(engine_tx[s]) - 1, Len(engine_tx[s]))
                 = <<Error, ConnectionClosed(ConnectionInfo(s))>>

\* the AuthMessages s handed to its writer
AuthMessagesWritten(s) ==
    {wire[s][i].body : i \in {j \in DOMAIN wire[s] : wire[s][j].body.type = "AuthMessage"}}

AuthMessageOrder ==
    /\ [](/\ loc["dial"].pc = "auth_read" \/ loc["dial"].peer_auth # NoAuth =>
               AuthMessagesWritten("dial") # {}
          /\ AuthMessagesWritten("acc") # {} =>
               /\ loc["acc"].peer_auth # NoAuth
               /\ loc["acc"].peer_auth.service_id = to_string(loc["acc"].peer_id)
               /\ loc["acc"].peer_auth.signature =
                    Sign(signing_key(loc["acc"].peer_id),
                         generate_auth_data(loc["acc"].peer_id,
                                            loc["acc"].session_hash)))
    /\ [][/\ loc'["dial"].peer_auth # loc["dial"].peer_auth =>
               AuthMessagesWritten("dial") # {} /\ wire'["dial"] = wire["dial"]
          /\ wire'["acc"] # wire["acc"] /\ AuthMessagesWritten("acc")' # {} =>
               loc["acc"].peer_auth # NoAuth /\ loc'["acc"].peer_auth = loc["acc"].peer_auth]_vars

\* C29, its case: both AuthMessages were written and read: the dialer holds
\* the acceptor's
AuthMessagesExchanged ==
    /\ AuthMessagesWritten("dial") # {}
    /\ AuthMessagesWritten("acc") # {}
    /\ loc["dial"].peer_auth \in AuthMessagesWritten("acc")
    /\ loc["acc"].peer_auth \in AuthMessagesWritten("dial")

\* C30: every Message event of a connection carries a chat message whose
\* sender is the authenticated peer identity of the connection and whose
\* recipient is the local identity
MessageSenderIsPeer ==
    \A s \in Sides :
        \A i \in DOMAIN MessagesIn(s) :
            /\ MessagesIn(s)[i].sender = loc[s].peer_id
            /\ MessagesIn(s)[i].recipient = LocalId(s)

\* both sides have published NewConnection and are live, the dialer on the
\* authorization record
BothLive ==
    /\ \A s \in Sides : Surfaced(s)
    /\ loc["dial"].authorized_read = "Ok"

\* a step of the handshake can be taken: the guard of one of its steps holds
HandshakeCanStep ==
    \/ loc["dial"].pc = "start"
    \/ loc["dial"].pc \in {"kx_read", "auth_read", "wait_authz"} /\ Reads("dial") # {}
    \/ loc["acc"].pc \in {"start", "auth_read"} /\ Reads("acc") # {}
    \/ \E s \in Sides : sig_req[s] # NoSig
    \/ \E s \in Sides : loc[s].pc = "sign_wait" /\ sig_reply[s] # NoSig
    \/ Routed("acc") /\ loc["acc"].pc = "live" /\ upper["acc"].authorize
    \/ loc["acc"].pc = "live" /\ inbox["acc"] # <<>>

SegmentedKeyRead ==
    /\ cx.pc = "keyread"
    /\ cx.bytes[1] = PROTOCOL_VERSION
    /\ cx.bytes[2] = ALGORITHM_CHACHA20POLY1305
    => cx.result.res = "Ok" /\ cx.result.val = cx.bytes[3]

\* C33: a frame too short to hold a nonce, or one that opens to an empty
\* plaintext, is a read error for the live actor that reads it: the actor
\* is terminated on the read error, not aborted, and the events it sent its
\* engine end with Error and ConnectionClosed for the connection
ShortFrameCloses ==
    \A s \in Sides :
        loc[s].body \in {"short", "empty"} =>
            /\ loc[s].pc = "done" /\ loc[s].err = "read"
            /\ Len(engine_tx[s]) >= 2
            /\ SubSeq(engine_tx[s], Len(engine_tx[s]) - 1, Len(engine_tx[s]))
                 = <<Error, ConnectionClosed(ConnectionInfo(s))>>

\* C34: at most one ConnectionAuthorizedMessage record is written on a
\* connection and none on an outgoing one, whatever ConnectionAuthorized
\* events the inbox is sent, and no live actor is handed such a record to
\* read (which would close its connection)
AuthorizedWrittenOnce ==
    \A s \in Sides :
        /\ Len(SelectSeq(wire[s], LAMBDA w : w.body = ConnectionAuthorizedMessage))
             <= (IF s = "acc" THEN 1 ELSE 0)
        /\ loc[s].body # "ConnectionAuthorizedMessage"

\* C35: a second connection with the peer identity of an earlier one leaves
\* the earlier one addressed by the engine: while the stream of a
\* connection has not ended, the engine's routing entry for it is in place
\* and is its own writer, whatever other connection with the same peer
\* identity was opened or closed meanwhile
SamePeerStaysAddressed ==
    \A k, j \in DOMAIN eng.streams :
        /\ k # j
        /\ eng.streams[k].connection.id = eng.streams[j].connection.id
        /\ eng.streams[k].pc # "ended"
        => /\ eng.streams[k].connection.address \in DOMAIN eng.writers
           /\ eng.writers[eng.streams[k].connection.address] = k

\* C36: an accepted connection is surfaced to the upper layer once: the
\* chat list of the upper layer never holds two entries for it (accepted
\* connections differ in their socket addresses)
SurfacedOnce ==
    \A i, j \in DOMAIN eng.chat_list :
        i # j /\ eng.chat_list[i].direction = "Incoming" =>
            eng.chat_list[i] # eng.chat_list[j]

\* C37: after any sequence of add, remove, next_chat and prev_chat on a
\* ChatList no operation has panicked, the index of the selected chat is
\* None exactly when the list is empty, and otherwise is an index into the
\* list
ChatListIndexValid ==
    /\ ~eng.panicked
    /\ eng.current_index = None <=> eng.list = <<>>
    /\ eng.current_index # None => eng.current_index \in 0..(Len(eng.list) - 1)

\* C38: ChatList::remove of a peer other than the selected one leaves the
\* selection on the peer it was on
RemoveKeepsSelection ==
    /\ eng.last.op = "remove"
    /\ eng.last.current # NoPeer
    /\ eng.last.id # eng.last.current
    => current(eng) = eng.last.current

\* C39: Command::from_str returns Help with the optional argument for
\* "help" followed by zero or one argument, Connect with the address for
\* "connect" followed by exactly one argument, and an error for an empty
\* input, for an unknown first word, and for help or connect with any
\* other number of arguments.  The words are counted on the string itself:
\* a word starts at a non-whitespace piece that is the first piece or
\* follows whitespace.
CommandParses ==
    cx.pc = "parsed" =>
        LET s == cx.string
            starts == {i \in DOMAIN s : s[i] # " " /\ (i = 1 \/ s[i - 1] = " ")}
            count == Cardinality(starts)
            nth(k) == CHOOSE i \in starts : Cardinality({j \in starts : j < i}) = k - 1
            word(k) == LET a == nth(k)
                           b == CHOOSE e \in a..Len(s) :
                                    /\ \A i \in a..e : s[i] # " "
                                    /\ (e = Len(s) \/ s[e + 1] = " ")
                       IN  SubSeq(s, a, b)
            r == cx.result
        IN  /\ count = 0 => r.res = "Err"
            /\ (count >= 1 /\ word(1) = <<"help">>) =>
                   /\ count = 1 => r.res = "Ok" /\ r.val = [cmd |-> "Help", arg |-> <<>>]
                   /\ count = 2 => r.res = "Ok" /\ r.val = [cmd |-> "Help", arg |-> word(2)]
                   /\ count > 2 => r.res = "Err"
            /\ (count >= 1 /\ word(1) = <<"connect">>) =>
                   /\ count = 2 => r.res = "Ok" /\ r.val = [cmd |-> "Connect", arg |-> word(2)]
                   /\ count # 2 => r.res = "Err"
            /\ (count >= 1 /\ word(1) \notin {<<"help">>, <<"connect">>, <<"quit">>}) =>
                   r.res = "Err"

\* C39 witness: "help connect", the input of tests::parse_help_string, parsed
HelpConnectParsed ==
    /\ cx.pc = "parsed"
    /\ cx.string = <<"help", " ", "connect">>
    /\ cx.result.res = "Ok"

=========================================================================
